---- MODULE Spec2Model ----
(***************************************************************************)
(* Verification model of the dynamic-agent gateway: the listener and its   *)
(* signed WebSocket handshake, the per-connection handlers (streaming with *)
(* the <think> demultiplexer, and the unary one that calls                 *)
(* AIAgent::process_message), the agent's two-tier cache pipeline, and the *)
(* cache facade of src/cache.                                              *)
(*                                                                         *)
(* Strings are sequences of one-character strings, so that trimming,      *)
(* prefix/suffix tests, searching and replacing are computed as the code   *)
(* computes them.  Option<T> is <<>> (None) or <<v>> (Some(v)).            *)
(***************************************************************************)
EXTENDS Integers, Sequences, FiniteSets, TLC

None == <<>>
Some(v) == <<v>>
IsSome(o) == o # <<>>
Unwrap(o) == o[1]

Abs(x) == IF x < 0 THEN 0 - x ELSE x

(***************************************************************************)
(* State.  Four groups: the listener, the connection handlers, the agent    *)
(* with its stores, and the prompt configuration.  A specification runs    *)
(* some groups and leaves the others as they are.                          *)
(***************************************************************************)
VARIABLES
    pcBoot,             \* "new" before the Server is built, "listening" after
    entry,              \* which bootstrap built the Server: "lib" or "main"
    args_api_key,       \* Args::server_api_key (SERVER_API_KEY), an Option
    enable_tls,         \* Args::enable_tls with both PEM paths given
    required_api_key,   \* the Option handed to every connection task
    now,                \* Utc::now().timestamp()
    clock_ms,           \* milliseconds on the limiter's clock since it was built
    tat,                \* state of CONNECTION_LIMITER: its theoretical arrival time
    socks,              \* one record per accepted TCP socket
    lastHs,             \* the last handshake the auth callback decided
    minted              \* number of conversation ids minted so far

VARIABLES
    conns,              \* connections whose handle_connection is running
    inbox,              \* per connection: frames the client sent, not yet read
    hpc,                \* per connection: where its handler is
    dm,                 \* per connection: buffer and flags of the demultiplexer
    stream,             \* per connection: items the current stream still holds
    out,                \* per connection: frames sent to the client, in order
    turn,               \* per connection: chat turns started
    fed,                \* per connection: chunks the current turn has consumed
    agent_lock,         \* holder of the Mutex<AIAgent>, 0 when free
    backend             \* which chat backend is wired: "chunking" or "few"

VARIABLES
    acfg,               \* the agent's cache configuration and clients
    redis,              \* exact tier: key -> Option of [val, ex]
    qdrant,             \* semantic tier: the points of the cache collection
    history,            \* history store: conversation id -> messages
    pending,            \* per connection: content of the chat being processed
    log                 \* turns and key expiries, in the order they happened

VARIABLES
    boot,               \* the process: "start", "running", or "exit" after a failed load
    wall,               \* SystemTime::now()
    prompts_file,       \* the file at args.prompts_path: Option of [mtime, doc]
    schema_ok,          \* the file at args.schema_path reads and parses
    function_schema_file, \* the function schema file: "ok", "missing" or "garbage"
    prompt_config,      \* AIAgent::prompt_config, the active snapshot (an Option)
    rag_tool,           \* the RagEngine: Option of [config, function_schema]
    used,               \* per connection: snapshots the current turn has read
    last_reload         \* what the last call of reload_prompts_if_changed did

VARIABLES
    enable_remote_prompts, \* Args::enable_remote_prompts
    etag,               \* RemoteConfigClient::etag, an Option
    remote,             \* the remote configuration service: [etag, doc]
    api_pc,             \* the reload endpoint: "idle", or the source it is reloading
    api_response        \* the last answer of the reload endpoint

VARIABLES
    history_type,       \* Args::history_type: "redis" or "qdrant"
    utc_now,            \* Utc::now().timestamp() at the history store, epoch seconds
    history_list,       \* keyed-list backing: conversation id -> list, newest first
    history_points,     \* vector backing: the set of stored points
    appended,           \* conversation id -> the messages in the order appended
    conversation,       \* what the last get_conversation returned
    rag_query,          \* the last call of RagEngine::query_and_answer
    rag_answer          \* what that call returned and the calls it made

VARIABLES
    llm_adapter,        \* the chat client stream_completion is called on
    llm_reply,          \* what the backend answers: [status_ok, wire, unary]
    llm_items,          \* the items sent on the channel of the returned stream
    llm_task,           \* the spawned task: "idle", "reading", "waiting", "ended"
    llm_stopped         \* the task has read the backend's terminator

authVars == <<pcBoot, entry, args_api_key, enable_tls, required_api_key,
              now, clock_ms, tat, socks, lastHs, minted>>
streamVars == <<conns, inbox, hpc, dm, stream, out, turn, fed, agent_lock, backend>>
agentVars == <<acfg, redis, qdrant, history, pending, log>>
promptVars == <<boot, wall, prompts_file, schema_ok, function_schema_file,
                prompt_config, rag_tool, used, last_reload>>
remoteVars == <<enable_remote_prompts, etag, remote, api_pc, api_response>>
storeVars == <<history_type, utc_now, history_list, history_points, appended, conversation>>
ragVars == <<rag_query, rag_answer>>
llmVars == <<llm_adapter, llm_reply, llm_items, llm_task, llm_stopped>>
toolVars == <<storeVars, ragVars, llmVars>>
vars == <<authVars, streamVars, agentVars, promptVars, remoteVars, toolVars>>

otherThanAuth == <<streamVars, agentVars, promptVars, remoteVars, toolVars>>
otherThanStream == <<authVars, agentVars, promptVars, remoteVars, toolVars>>

\* No connection handler exists.
StreamIdle ==
    /\ conns = {}
    /\ inbox = <<>>
    /\ hpc = <<>>
    /\ dm = <<>>
    /\ stream = <<>>
    /\ out = <<>>
    /\ turn = <<>>
    /\ fed = <<>>
    /\ agent_lock = 0
    /\ backend = "none"

\* No agent has been built and the stores are empty.
AgentIdle ==
    /\ acfg = [enable_cache |-> FALSE, redis_conn |-> FALSE, qdrant_client |-> FALSE,
               ttl |-> 0, threshold |-> 100]
    /\ redis = <<>>
    /\ qdrant = {}
    /\ history = <<>>
    /\ pending = <<>>
    /\ log = <<>>

\* The template keys the prompt configuration is required to have.
RequiredKeys ==
    {"intent_classification", "rag_topic_inference", "rag_dynamic_query_generation",
     "rag_final_answer", "fallback_topic_resolver"}

\* A prompts file that parses, with every required key; rev tells one
\* edition of the templates and the intent table from another.
DocFull(rev) == [parses |-> TRUE, keys |-> RequiredKeys, rev |-> rev]

NoReload == [ret |-> "none", swapped |-> FALSE, rag_swapped |-> FALSE, old |-> 0,
             new |-> 0, newer |-> FALSE, good |-> FALSE, step |-> "none"]

\* RagEngine::new with a prompt configuration and a function schema
\* ("loaded" from the file, or "empty").
RagEngine(config, function_schema) ==
    Some([config |-> config, function_schema |-> function_schema])

\* The agent was built from a complete prompts file that has not been
\* touched since, and nobody has asked for a reload.
PromptSettled ==
    /\ boot = "running"
    /\ wall = 2
    /\ prompts_file = Some([mtime |-> 0, doc |-> DocFull(1)])
    /\ schema_ok = TRUE
    /\ function_schema_file = "ok"
    /\ prompt_config = Some([keys |-> RequiredKeys, rev |-> 1, last_loaded |-> 1])
    /\ rag_tool = RagEngine(Unwrap(prompt_config), "loaded")
    /\ used = <<>>
    /\ last_reload = NoReload

NoResponse == [status |-> 0, success |-> FALSE, message |-> "", details |-> <<>>,
               remote_status |-> 0]

\* Before the first get_conversation and the first query_and_answer.
NoConversation == [backing |-> "none", id |-> 0, limit |-> 0, ret |-> "none",
                   messages |-> <<>>, appended |-> <<>>]
NoQuery == [user_question |-> <<>>]
NoAnswer == [ret |-> "none", value |-> <<>>, calls |-> <<>>]

\* Remote prompts are switched off and nobody has called the endpoint.
RemoteIdle ==
    /\ enable_remote_prompts = FALSE
    /\ etag = None
    /\ remote = [etag |-> 1, doc |-> DocFull(1)]
    /\ api_pc = "idle"
    /\ api_response = NoResponse

\* No message was stored, no conversation read and no RAG query made.
\* No stream_completion has been called.
LlmIdle ==
    /\ llm_adapter = "none"
    /\ llm_reply = [status_ok |-> TRUE, wire |-> <<>>, unary |-> [ok |-> TRUE, text |-> <<>>]]
    /\ llm_items = <<>>
    /\ llm_task = "idle"
    /\ llm_stopped = FALSE

ToolsIdle ==
    /\ LlmIdle
    /\ history_type = "redis"
    /\ utc_now = 1
    /\ history_list = <<>>
    /\ history_points = {}
    /\ appended = <<>>
    /\ conversation = NoConversation
    /\ rag_query = NoQuery
    /\ rag_answer = NoAnswer

(***************************************************************************)
(* Part 1.  Listener and handshake authentication.                         *)
(***************************************************************************)

\* Bounds of the listener model.
MaxSocks == 2
MaxTicks == 1
TickMs == 50
MaxClockMs == 100
StartClock == 1000

\* Program constants.
AuthWindow == 300
QuotaBurst == 10

\* A limiter that lets one connection more than the burst through.
limiter_check_burst_plus_one(state, t0) ==
    LET t == 1000 \div QuotaBurst
        tau == t * (QuotaBurst + 1)
        cur == IF IsSome(state) THEN Unwrap(state) ELSE t0 + t
        earliest_time == IF cur > tau THEN cur - tau ELSE 0
    IN IF t0 < earliest_time
       THEN [ok |-> FALSE, tat |-> state]
       ELSE [ok |-> TRUE, tat |-> Some((IF cur > t0 THEN cur ELSE t0) + t)]

\* CONNECTION_LIMITER.check() at t0 milliseconds on the limiter's clock:
\* RateLimiter::direct(Quota::per_second(10)) runs the generic cell rate
\* algorithm with one cell per 1000/10 ms and a tolerance of 10 cells; the
\* state is the theoretical arrival time, unset until the first check.
limiter_check(state, t0) ==
    LET t == 1000 \div QuotaBurst
        tau == t * QuotaBurst
        cur == IF IsSome(state) THEN Unwrap(state) ELSE t0 + t
        earliest_time == IF cur > tau THEN cur - tau ELSE 0
    IN IF t0 < earliest_time
       THEN [ok |-> FALSE, tat |-> state]
       ELSE [ok |-> TRUE, tat |-> Some((IF cur > t0 THEN cur ELSE t0) + t)]

\* str::trim of the secrets the model configures (" " is all whitespace).
TrimSecret(k) == IF k = " " THEN "" ELSE k

\* Server::new of the binary crate keeps the key unless it is blank.
ServerNewMain(key) ==
    IF IsSome(key) /\ TrimSecret(Unwrap(key)) # "" THEN key ELSE None

\* Server::start_ws_server of the library crate: the literal None is passed.
ServerStartLib(key) == None

\* A decimal ts string is [digits |-> TRUE, val |-> n]; any other text parses
\* to nothing.  ts.parse::<i64>().unwrap_or(0)
ParseTs(s) == IF s.digits THEN s.val ELSE 0

\* HMAC-SHA256 as an injective constructor of (key, message), and hex::encode,
\* which writes lowercase digits.
HmacSha256(key, msg) == <<"hmac", key, msg>>
HexEncode(d) == [mac |-> d, upper |-> FALSE]

\* params.get("ts").or_else(|| params.get("X-Api-Ts")), and the same for sig.
ParamTs(req) == IF IsSome(req.ts) THEN req.ts ELSE req.xts
ParamSig(req) == IF IsSome(req.sig) THEN req.sig ELSE req.xsig

\* auth_callback with the window test written >= (a timestamp exactly 300 s
\* old is turned away).
auth_callback_window_off_by_one(key, req, t) ==
    IF ~(IsSome(key) /\ Unwrap(key) # "") THEN 0
    ELSE IF IsSome(ParamTs(req)) /\ IsSome(ParamSig(req))
         THEN IF Abs(t - ParseTs(Unwrap(ParamTs(req)))) >= AuthWindow
              THEN 401
              ELSE IF HexEncode(HmacSha256(Unwrap(key), Unwrap(ParamTs(req))))
                        = Unwrap(ParamSig(req))
                   THEN 0
                   ELSE 401
         ELSE 401

\* The closure auth_callback: 0 is "upgrade accepted", 401 the rejection.
auth_callback(key, req, t) ==
    IF ~(IsSome(key) /\ Unwrap(key) # "") THEN 0
    ELSE IF IsSome(ParamTs(req)) /\ IsSome(ParamSig(req))
         THEN IF Abs(t - ParseTs(Unwrap(ParamTs(req)))) > AuthWindow
              THEN 401
              ELSE IF HexEncode(HmacSha256(Unwrap(key), Unwrap(ParamTs(req))))
                        = Unwrap(ParamSig(req))
                   THEN 0
                   ELSE 401
         ELSE 401

\* The handshakes a client may present: ts strings on both sides of the
\* window and one that is no number; signatures under the right and a wrong
\* key, over the right and a wrong message, and in upper-case hex; and the
\* alias parameters alone or next to the primary ones.
TsEarly == [digits |-> TRUE, val |-> StartClock - AuthWindow]
TsLate == [digits |-> TRUE, val |-> StartClock + AuthWindow + 1]
TsText == [digits |-> FALSE, val |-> 0]
TsStrings == {TsEarly, TsLate, TsText}
SigStrings ==
    { HexEncode(HmacSha256("s", t)) : t \in TsStrings }
    \cup { HexEncode(HmacSha256("x", TsEarly)),
           [mac |-> HmacSha256("s", TsEarly), upper |-> TRUE] }
RequestsPrimary ==
    { [ts |-> t, xts |-> None, sig |-> g, xsig |-> None] :
        t \in {None} \cup {Some(s) : s \in TsStrings},
        g \in {None} \cup {Some(h) : h \in SigStrings} }
RequestsAlias ==
    { [ts |-> t, xts |-> Some(TsEarly), sig |-> g,
       xsig |-> Some(HexEncode(HmacSha256("s", TsEarly)))] :
        t \in {None, Some(TsText)},
        g \in {None, Some(HexEncode(HmacSha256("x", TsEarly)))} }
    \cup { [ts |-> None, xts |-> Some(TsEarly), sig |-> None, xsig |-> None],
           [ts |-> Some(TsEarly), xts |-> None, sig |-> None,
            xsig |-> Some(HexEncode(HmacSha256("s", TsEarly)))] }
Requests == RequestsPrimary \cup RequestsAlias

NoHs == [sock |-> 0, req |-> None, at |-> 0, status |-> 0]

InitAuth ==
    /\ pcBoot = "new"
    /\ entry \in {"lib", "main"}
    /\ args_api_key \in {None, Some(""), Some(" "), Some("s")}
    /\ enable_tls \in BOOLEAN
    /\ required_api_key = None
    /\ now = StartClock
    /\ clock_ms = 0
    /\ tat = None
    /\ socks = <<>>
    /\ lastHs = NoHs
    /\ minted = 0
    /\ StreamIdle
    /\ AgentIdle
    /\ PromptSettled
    /\ RemoteIdle
    /\ ToolsIdle

\* run(): Server::new(..) then server.run() up to the accept loop.
Boot ==
    /\ pcBoot = "new"
    /\ pcBoot' = "listening"
    /\ required_api_key' = IF entry = "main" THEN ServerNewMain(args_api_key)
                           ELSE ServerStartLib(args_api_key)
    /\ UNCHANGED <<entry, args_api_key, enable_tls, now, clock_ms, tat, socks,
                   lastHs, minted>>
    /\ UNCHANGED otherThanAuth

\* One pass of the accept loop: listener.accept(), the limiter check, and
\* tokio::spawn of the task that will run the handshakes.  The listener has
\* taken fewer than limit sockets so far.
Accept(limit) ==
    /\ pcBoot = "listening"
    /\ Len(socks) < limit
    /\ LET r == limiter_check(tat, clock_ms) IN
       /\ tat' = r.tat
       /\ IF ~r.ok
          THEN socks' = Append(socks, [st |-> "dropped", task |-> FALSE, conv |-> 0,
                                       at |-> clock_ms])
          ELSE socks' = Append(socks, [st |-> "spawned", task |-> TRUE, conv |-> 0,
                                       at |-> clock_ms])
    /\ UNCHANGED <<pcBoot, entry, args_api_key, enable_tls, required_api_key,
                   now, clock_ms, lastHs, minted>>
    /\ UNCHANGED otherThanAuth

\* Time passes on the limiter's clock.
Advance ==
    /\ pcBoot = "listening"
    /\ clock_ms < MaxClockMs
    /\ clock_ms' = clock_ms + TickMs
    /\ UNCHANGED <<pcBoot, entry, args_api_key, enable_tls, required_api_key,
                   now, tat, socks, lastHs, minted>>
    /\ UNCHANGED otherThanAuth

Tick ==
    /\ now < StartClock + MaxTicks
    /\ now' = now + 1
    /\ UNCHANGED <<pcBoot, entry, args_api_key, enable_tls, required_api_key,
                   clock_ms, tat, socks, lastHs, minted>>
    /\ UNCHANGED otherThanAuth

\* The spawned task when the TLS accept fails: process_connection is not called.
TlsFail(i) ==
    /\ i \in 1..Len(socks)
    /\ socks[i].st = "spawned"
    /\ enable_tls
    /\ socks' = [socks EXCEPT ![i].st = "tls_error"]
    /\ UNCHANGED <<pcBoot, entry, args_api_key, enable_tls, required_api_key,
                   now, clock_ms, tat, lastHs, minted>>
    /\ UNCHANGED otherThanAuth

\* process_connection: accept_hdr_async runs auth_callback on the upgrade
\* request; on Ok handle_connection starts and mints the conversation id.
process_connection(i, req) ==
    /\ i \in 1..Len(socks)
    /\ socks[i].st = "spawned"
    /\ LET status == auth_callback(required_api_key, req, now) IN
       /\ lastHs' = [sock |-> i, req |-> Some(req), at |-> now, status |-> status]
       /\ IF status = 0
          THEN /\ socks' = [socks EXCEPT ![i].st = "open", ![i].conv = minted + 1]
               /\ minted' = minted + 1
          ELSE /\ socks' = [socks EXCEPT ![i].st = "rejected"]
               /\ UNCHANGED minted
    /\ UNCHANGED <<pcBoot, entry, args_api_key, enable_tls, required_api_key,
                   now, clock_ms, tat>>
    /\ UNCHANGED otherThanAuth

NextAuth ==
    \/ Boot
    \/ Accept(MaxSocks)
    \/ Advance
    \/ Tick
    \/ \E i \in 1..MaxSocks : TlsFail(i)
    \/ \E i \in 1..MaxSocks : \E req \in Requests : process_connection(i, req)

SpecAuth == InitAuth /\ [][NextAuth]_vars

\* The handshake rule as the specification words it: both parameters present
\* (primary name or alias), a numeric ts within the window of the time of the
\* handshake, and sig the lowercase hex HMAC-SHA256 of the ts text.
HandshakeValid(secret, req, t) ==
    /\ IsSome(ParamTs(req))
    /\ IsSome(ParamSig(req))
    /\ Unwrap(ParamTs(req)).digits
    /\ Abs(t - Unwrap(ParamTs(req)).val) <= AuthWindow
    /\ Unwrap(ParamSig(req)) =
         [mac |-> HmacSha256(secret, Unwrap(ParamTs(req))), upper |-> FALSE]

SecretRequired == IsSome(required_api_key) /\ Unwrap(required_api_key) # ""

C2_ConfiguredSecretEnforced ==
    (/\ pcBoot = "listening"
     /\ IsSome(args_api_key)
     /\ TrimSecret(Unwrap(args_api_key)) # "") =>
        /\ required_api_key = args_api_key
        /\ (lastHs.sock # 0 /\ socks[lastHs.sock].st = "open") =>
              HandshakeValid(Unwrap(args_api_key), Unwrap(lastHs.req), lastHs.at)

(***************************************************************************)
(* Part 2.  Text helpers: Rust's str methods on sequences of characters.   *)
(***************************************************************************)

StartsWith(s, p) == Len(p) <= Len(s) /\ SubSeq(s, 1, Len(p)) = p
EndsWith(s, p) == Len(p) <= Len(s) /\ SubSeq(s, Len(s) - Len(p) + 1, Len(s)) = p

\* str::find as a 1-based position of the first match, 0 when there is none.
Find(s, p) ==
    LET hits == { i \in 1..(Len(s) - Len(p) + 1) : SubSeq(s, i, i + Len(p) - 1) = p }
    IN IF hits = {} THEN 0 ELSE CHOOSE i \in hits : \A j \in hits : i <= j
Contains(s, p) == Find(s, p) # 0

\* s[k..] for a 0-based byte offset k.
From(s, k) == SubSeq(s, k + 1, Len(s))

\* str::replace: every non-overlapping match, left to right.
RECURSIVE Replace(_, _, _)
Replace(s, p, r) ==
    IF Len(s) < Len(p) THEN s
    ELSE IF StartsWith(s, p) THEN r \o Replace(From(s, Len(p)), p, r)
    ELSE <<Head(s)>> \o Replace(Tail(s), p, r)

IsSpace(c) == c \in {" ", "\n", "\t", "\r"}
RECURSIVE TrimStart(_)
TrimStart(s) == IF s # <<>> /\ IsSpace(Head(s)) THEN TrimStart(Tail(s)) ELSE s
RECURSIVE TrimEnd(_)
TrimEnd(s) ==
    IF s # <<>> /\ IsSpace(s[Len(s)]) THEN TrimEnd(SubSeq(s, 1, Len(s) - 1)) ELSE s
Trim(s) == TrimEnd(TrimStart(s))

UpperLetters == <<"A", "B", "C", "D", "E", "F", "G", "H", "I", "J", "K", "L", "M",
                 "N", "O", "P", "Q", "R", "S", "T", "U", "V", "W", "X", "Y", "Z">>
LowerLetters == <<"a", "b", "c", "d", "e", "f", "g", "h", "i", "j", "k", "l", "m",
                 "n", "o", "p", "q", "r", "s", "t", "u", "v", "w", "x", "y", "z">>
LowerOf(c) ==
    IF \E i \in DOMAIN UpperLetters : UpperLetters[i] = c
    THEN LowerLetters[CHOOSE i \in DOMAIN UpperLetters : UpperLetters[i] = c]
    ELSE c
ToLowercase(s) == [i \in 1..Len(s) |-> LowerOf(s[i])]

RECURSIVE Concat(_)
Concat(ss) == IF ss = <<>> THEN <<>> ELSE Head(ss) \o Concat(Tail(ss))

(***************************************************************************)
(* Part 3.  The streaming connection handler and its <think> demultiplexer *)
(* (src/server/websocket.rs).                                              *)
(***************************************************************************)

OpenTag == <<"<", "t", "h", "i", "n", "k", ">">>
CloseTag == <<"<", "/", "t", "h", "i", "n", "k", ">">>

\* The literals clean_response_text removes.
PatBoxed == <<"\\", "b", "o", "x", "e", "d", "{">>
PatText == <<"\\", "t", "e", "x", "t", "{">>
PatStrongOpen == <<"\\", "<", "s", "t", "r", "o", "n", "g", ">">>
PatStrongClose == <<"\\", "<", "/", "s", "t", "r", "o", "n", "g", ">">>
PatFinalBold == <<"*", "*", "F", "i", "n", "a", "l", " ", "A", "n", "s", "w", "e", "r", ":", "*", "*">>
PatBold == <<"*", "*">>
MetaPatterns ==
    << <<"T", "h", "e", " ", "u", "s", "e", "r", "'", "s", " ", "i", "n", "p", "u", "t", " ", "i", "s">>,
       <<"T", "h", "e", " ", "a", "p", "p", "r", "o", "p", "r", "i", "a", "t", "e", " ", "r", "e", "s", "p", "o", "n", "s", "e">>,
       <<"F", "i", "n", "a", "l", " ", "A", "n", "s", "w", "e", "r", ":">>,
       <<"I", "n", " ", "r", "e", "s", "p", "o", "n", "s", "e", " ", "t", "o">>,
       <<"I", "'", "l", "l", " ", "r", "e", "s", "p", "o", "n", "d", " ", "w", "i", "t", "h">> >>
BlankLine == <<"\n", "\n">>
BlankLines == <<"\n", "\n", "\n">>

\* One pass of the meta-commentary loop: when the pattern occurs and a blank
\* line follows it, everything up to and including that blank line goes.
CutMeta(cleaned, pattern) ==
    LET pos == Find(cleaned, pattern) IN
    IF pos = 0 THEN cleaned
    ELSE LET end_pos == Find(From(cleaned, pos - 1), BlankLine) IN
         IF end_pos = 0 THEN cleaned
         ELSE From(cleaned, (pos - 1) + (end_pos - 1) + 2)

RECURSIVE CutMetaAll(_, _)
CutMetaAll(cleaned, k) ==
    IF k > Len(MetaPatterns) THEN cleaned
    ELSE CutMetaAll(CutMeta(cleaned, MetaPatterns[k]), k + 1)

clean_response_text(text) ==
    LET c1 == Replace(Replace(text, PatBoxed, <<>>), PatText, <<>>)
        c2 == Replace(Replace(Replace(Replace(c1, PatStrongOpen, <<>>),
                  PatStrongClose, <<>>), PatFinalBold, <<>>), PatBold, <<>>)
        c3 == CutMetaAll(c2, 1)
    IN Trim(Replace(c3, BlankLines, BlankLine))

\* Program constants.
FlushLimit == 20
MAX_MESSAGE_SIZE == 1048576

Frame(type, content) == [type |-> type, content |-> content, why |-> ""]
ErrorFrame(why) == [type |-> "error", content |-> <<>>, why |-> why]

\* The demultiplexer state a connection keeps across chunks.
DemuxInit ==
    [buffer |-> <<>>, in_thinking_section |-> FALSE,
     partial_close_tag |-> FALSE, partial_open_tag |-> FALSE]

\* The position after the first ">" of the chunk: text.find(">").unwrap_or(0) + 1
AfterTagPos(text) == (IF Find(text, <<">">>) = 0 THEN 0 ELSE Find(text, <<">">>) - 1) + 1

CompletesOpenTag(text) ==
    \/ StartsWith(text, <<">">>)
    \/ StartsWith(text, <<"k", ">">>)
    \/ StartsWith(text, <<"n", "k", ">">>)
    \/ StartsWith(text, <<"i", "n", "k", ">">>)

EndsWithOpenPrefix(buffer) ==
    \/ EndsWith(buffer, <<"<", "t">>)
    \/ EndsWith(buffer, <<"<", "t", "h">>)
    \/ EndsWith(buffer, <<"<", "t", "h", "i">>)
    \/ EndsWith(buffer, <<"<", "t", "h", "i", "n">>)
    \/ EndsWith(buffer, <<"<", "t", "h", "i", "n", "k">>)

\* The body of the Ok(fragment) arm for one chunk: the new demultiplexer state
\* and the frames sent, in order.  Each IF is one of the arm's early `continue`s.
DemuxChunk(d, text) ==
    IF ~d.in_thinking_section /\ d.partial_open_tag /\ CompletesOpenTag(text)
    THEN LET after_tag == From(text, AfterTagPos(text)) IN
         [d |-> [d EXCEPT !.partial_open_tag = FALSE, !.in_thinking_section = TRUE,
                          !.buffer = after_tag],
          frames |-> <<Frame("thinking_fragment", after_tag)>>]
    ELSE
    LET buffer == d.buffer \o text IN
    IF ~d.in_thinking_section /\ EndsWithOpenPrefix(buffer)
    THEN [d |-> [d EXCEPT !.buffer = buffer, !.partial_open_tag = TRUE], frames |-> <<>>]
    ELSE IF /\ d.in_thinking_section
            /\ ~Contains(buffer, CloseTag)
            /\ \/ EndsWith(buffer, <<"<">>)
               \/ (EndsWith(buffer, <<"<", "/">>) /\ ~StartsWith(text, <<"t", "h", "i", "n", "k", ">">>))
    THEN [d |-> [d EXCEPT !.buffer = buffer, !.partial_close_tag = TRUE], frames |-> <<>>]
    ELSE IF /\ d.in_thinking_section
            /\ ~Contains(buffer, CloseTag)
            /\ \/ (d.partial_close_tag /\ StartsWith(text, <<"t", "h", "i", "n", "k", ">">>))
               \/ StartsWith(text, <<"/", "t", "h", "i", "n", "k", ">">>)
    THEN LET think_content ==
                 IF EndsWith(buffer, <<"<", "/">>) THEN SubSeq(buffer, 1, Len(buffer) - 2)
                 ELSE IF EndsWith(buffer, <<"<">>) THEN SubSeq(buffer, 1, Len(buffer) - 1)
                 ELSE buffer
             after_content == From(text, AfterTagPos(text))
         IN [d |-> [d EXCEPT !.in_thinking_section = FALSE, !.partial_close_tag = FALSE,
                             !.buffer = <<>>],
             frames |->
                 (IF think_content # <<>>
                  THEN <<Frame("thinking_fragment", think_content)>> ELSE <<>>)
                 \o (IF AfterTagPos(text) < Len(text) /\ after_content # <<>>
                     THEN <<Frame("partial", clean_response_text(after_content))>>
                     ELSE <<>>)]
    ELSE IF ~d.in_thinking_section /\ Contains(buffer, OpenTag)
    THEN LET after_tag == From(buffer, (Find(buffer, OpenTag) - 1) + Len(OpenTag)) IN
         [d |-> [d EXCEPT !.in_thinking_section = TRUE, !.buffer = after_tag],
          frames |-> <<Frame("thinking_fragment", after_tag)>>]
    ELSE IF d.in_thinking_section /\ Contains(buffer, CloseTag)
    THEN LET end_pos == Find(buffer, CloseTag) - 1
             thinking_part == SubSeq(buffer, 1, end_pos)
             after == From(buffer, end_pos + Len(CloseTag))
         IN [d |-> [d EXCEPT !.in_thinking_section = FALSE, !.buffer = <<>>],
             frames |->
                 (IF thinking_part # <<>>
                  THEN <<Frame("thinking_fragment", thinking_part)>> ELSE <<>>)
                 \o (IF after # <<>>
                     THEN <<Frame("partial", clean_response_text(after))>> ELSE <<>>)]
    ELSE IF Len(buffer) > FlushLimit
    THEN [d |-> [d EXCEPT !.buffer = <<>>],
          frames |-> IF d.in_thinking_section
                     THEN <<Frame("thinking_fragment", buffer)>>
                     ELSE <<Frame("partial", clean_response_text(buffer))>>]
    ELSE [d |-> [d EXCEPT !.buffer = buffer], frames |-> <<>>]

\* After the stream loop: what is left in the buffer goes out as it is (the
\* buffer itself is not cleared), then the done frame.
EndOfStream(d) ==
    (IF d.buffer # <<>>
     THEN IF d.in_thinking_section
          THEN <<Frame("thinking_fragment", d.buffer)>>
          ELSE <<Frame("partial", d.buffer)>>
     ELSE <<>>)
    \o <<Frame("done", <<>>)>>

\* Bounds of the streaming model.
MaxChunks == 3
MaxMsgs == 2

\* Raw model outputs the chat backend may stream.
RawThink == <<"a", "b", "c", "<", "t", "h", "i", "n", "k", ">", "X", "Y", "Z", "<", "/", "t", "h", "i", "n", "k", ">", "a", "n", "s", "w", "e", "r">>
RawPlain == <<"a", "a", "a", "a", "a", "a", "a", "a", "a", "a", "a", "a", "a", "a", "a", "a", "a", "a", "a", "a", "a", "a", "a", "b">>
RawOutputs == {RawThink, RawPlain}

\* Every way to cut s into at most n non-empty chunks.
RECURSIVE Splits(_, _)
Splits(s, n) ==
    IF s = <<>> THEN {<<>>}
    ELSE IF n = 0 THEN {}
    ELSE UNION { { <<SubSeq(s, 1, k)>> \o rest : rest \in Splits(From(s, k), n - 1) } :
                 k \in 1..Len(s) }

OkItem(text) == [ok |-> TRUE, text |-> text]
ErrItem == [ok |-> FALSE, text |-> <<>>]
OkItems(chunks) == [i \in 1..Len(chunks) |-> OkItem(chunks[i])]

\* The streams of one backend: every chunking of every raw output, ending
\* cleanly or with an error item after the last chunk.
AllStreams ==
    UNION { { OkItems(ch) : ch \in Splits(r, MaxChunks) }
            \cup { OkItems(ch) \o <<ErrItem>> : ch \in Splits(r, MaxChunks) } :
            r \in RawOutputs }
FewStreams ==
    { OkItems(<<<<"h", "i">>>>),
      OkItems(<<<<"a", "<", "t", "h", "i", "n", "k", ">", "b">>, <<"<", "/", "t", "h", "i", "n", "k", ">", "c">>>>),
      <<OkItem(<<"h", "i">>), ErrItem>> }

\* Raw outputs in which the beginning of a tag is not followed by its end.
RawBrokenOpen == <<"a", "<", "t", "x", ">", "b">>
RawBrokenClose == <<"<", "t", "h", "i", "n", "k", ">", "r", "<", "x", "t", "h", "i", "n", "k", ">", "b">>
BrokenTagStreams ==
    UNION { { OkItems(ch) : ch \in Splits(r, MaxChunks) } : r \in {RawBrokenOpen} }
    \cup { OkItems(<<<<"<", "t", "h", "i", "n", "k", ">", "r">>, <<"<">>, <<"x">>, <<"t", "h", "i", "n", "k", ">", "b">>>>),
           OkItems(<<<<"<", "t", "h", "i", "n", "k", ">", "r">>, <<"<", "/">>, <<"x">>, <<"t", "h", "i", "n", "k", ">", "b">>>>),
           <<OkItem(<<"a", "<", "t">>), ErrItem>> }

\* Raw outputs with more than FlushLimit characters in front of a tag.
RawLongBeforeOpen == <<"a", "a", "a", "a", "a", "a", "a", "a", "a", "a", "a", "a", "a", "a", "a", "a", "a", "a", "a", "a", "a", "<", "t", "h", "i", "n", "k", ">", "X", "<", "/", "t", "h", "i", "n", "k", ">", "b">>
RawLongBeforeClose == <<"<", "t", "h", "i", "n", "k", ">", "r", "r", "r", "r", "r", "r", "r", "r", "r", "r", "r", "r", "r", "r", "r", "r", "r", "r", "<", "/", "t", "h", "i", "n", "k", ">", "b">>
LongStreams ==
    UNION { { OkItems(ch) : ch \in Splits(r, MaxChunks) } :
            r \in {RawLongBeforeOpen, RawLongBeforeClose} }

BackendStreams(b) ==
    IF b = "chunking" THEN AllStreams
    ELSE IF b = "few" THEN FewStreams
    ELSE IF b = "broken" THEN BrokenTagStreams
    ELSE IF b = "long" THEN LongStreams
    ELSE {}

\* Frames a client may send.
ChatFrame(think) == [kind |-> "chat", len |-> 32, think |-> think]
InvalidFrame == [kind |-> "invalid", len |-> 32, think |-> FALSE]
OversizeFrame == [kind |-> "chat", len |-> MAX_MESSAGE_SIZE + 1, think |-> FALSE]
FullSizeFrame == [kind |-> "chat", len |-> MAX_MESSAGE_SIZE, think |-> FALSE]
CloseFrame == [kind |-> "close", len |-> 0, think |-> FALSE]
ClientFrames ==
    {ChatFrame(FALSE), ChatFrame(TRUE), InvalidFrame, OversizeFrame, FullSizeFrame, CloseFrame}

RECURSIVE SeqsUpTo(_, _)
SeqsUpTo(S, n) ==
    IF n = 0 THEN {<<>>}
    ELSE SeqsUpTo(S, n - 1)
         \cup { Append(q, x) : q \in { p \in SeqsUpTo(S, n - 1) : Len(p) = n - 1 }, x \in S }

\* The listener as it stands once connections are open: booted, no secret
\* required, nothing pending.
AuthSettled ==
    /\ pcBoot = "listening"
    /\ entry = "lib"
    /\ args_api_key = None
    /\ enable_tls = FALSE
    /\ required_api_key = None
    /\ now = StartClock
    /\ clock_ms = 0
    /\ tat = None
    /\ socks = <<>>
    /\ lastHs = NoHs
    /\ minted = 0

InitHandlers(cs, boxes, b) ==
    /\ conns = cs
    /\ inbox = boxes
    /\ hpc = [c \in cs |-> "recv"]
    /\ dm = [c \in cs |-> DemuxInit]
    /\ stream = [c \in cs |-> <<>>]
    /\ out = [c \in cs |-> <<>>]
    /\ turn = [c \in cs |-> 0]
    /\ fed = [c \in cs |-> <<>>]
    /\ agent_lock = 0
    /\ backend = b

\* One connection, one chat message, every chunking of the raw outputs.
InitDemux ==
    /\ AuthSettled
    /\ AgentIdle
    /\ PromptSettled
    /\ RemoteIdle
    /\ ToolsIdle
    /\ \E think \in BOOLEAN :
         InitHandlers({1}, [c \in {1} |-> <<ChatFrame(think)>>], "chunking")

\* Two connections; the first sends up to MaxMsgs frames, the second one chat.
InitStream ==
    /\ AuthSettled
    /\ AgentIdle
    /\ PromptSettled
    /\ RemoteIdle
    /\ ToolsIdle
    /\ \E box \in SeqsUpTo(ClientFrames, MaxMsgs) \ {<<>>} :
         InitHandlers({1, 2},
                      [c \in {1, 2} |-> IF c = 1 THEN box ELSE <<ChatFrame(FALSE)>>],
                      "few")

Tagged(frames, t) ==
    [i \in 1..Len(frames) |->
        [type |-> frames[i].type, content |-> frames[i].content,
         why |-> frames[i].why, turn |-> t]]

\* A size check that also turns away a message of exactly the limit.
TooLargeInclusive(m) == m.len >= MAX_MESSAGE_SIZE

\* if message.len() > MAX_MESSAGE_SIZE
TooLarge(m) == m.len > MAX_MESSAGE_SIZE

\* A handler that would take the next frame while the stream of the turn
\* before is still being consumed (one task per message instead of a loop).
AtLoopTopOrStreaming(c) == hpc[c] \in {"recv", "stream"}

\* `while let Some(msg) = rx.next().await`: the handler reads the next frame
\* only from the top of its loop.
AtLoopTop(c) == hpc[c] = "recv"

\* A handler that only logs a message it cannot parse.
ParseErrorUnanswered == <<>>

\* The Err arm of serde_json::from_str::<ClientMessage>: the frames sent for
\* a text message that is not a ClientMessage.
ParseErrorReply == <<ErrorFrame("Failed to parse message")>>

\* The arms of the loop body up to the call of the agent.
Recv(c) ==
    /\ c \in conns
    /\ AtLoopTop(c)
    /\ inbox[c] # <<>>
    /\ LET m == Head(inbox[c]) IN
       /\ inbox' = [inbox EXCEPT ![c] = Tail(@)]
       /\ IF TooLarge(m)
          THEN /\ out' = [out EXCEPT ![c] = @ \o Tagged(<<ErrorFrame("Message too large")>>, 0)]
               /\ hpc' = [hpc EXCEPT ![c] = "closed"]
               /\ UNCHANGED <<turn, fed>>
          ELSE CASE m.kind = "chat" ->
                    /\ turn' = [turn EXCEPT ![c] = @ + 1]
                    /\ out' = [out EXCEPT ![c] = @ \o Tagged(
                                 (IF m.think THEN <<Frame("thinking", <<>>)>> ELSE <<>>)
                                 \o <<Frame("typing", <<>>)>>, turn[c] + 1)]
                    /\ hpc' = [hpc EXCEPT ![c] = "lock"]
                    /\ fed' = [fed EXCEPT ![c] = <<>>]
                 [] m.kind = "invalid" ->
                    /\ out' = [out EXCEPT ![c] = @ \o Tagged(ParseErrorReply, 0)]
                    /\ UNCHANGED <<hpc, turn, fed>>
                 [] m.kind = "close" ->
                    /\ hpc' = [hpc EXCEPT ![c] = "closed"]
                    /\ UNCHANGED <<out, turn, fed>>
                 [] m.kind = "ping" ->
                    /\ out' = [out EXCEPT ![c] = @ \o Tagged(<<Frame("pong", <<>>)>>, 0)]
                    /\ UNCHANGED <<hpc, turn, fed>>
                 [] OTHER ->
                    UNCHANGED <<out, hpc, turn, fed>>
    /\ UNCHANGED <<conns, dm, stream, agent_lock, backend>>
    /\ UNCHANGED otherThanStream

\* agent.lock().await
AcquireLock(c) ==
    /\ c \in conns
    /\ hpc[c] = "lock"
    /\ agent_lock = 0
    /\ agent_lock' = c
    /\ hpc' = [hpc EXCEPT ![c] = "agent"]
    /\ UNCHANGED <<conns, inbox, dm, stream, out, turn, fed, backend>>
    /\ UNCHANGED otherThanStream

\* process_message_stream returns under the lock: an error, or the stream the
\* handler will consume; the guard is dropped at the end of the statement.
process_message_stream(c) ==
    /\ c \in conns
    /\ hpc[c] = "agent"
    /\ agent_lock = c
    /\ agent_lock' = 0
    /\ \/ /\ out' = [out EXCEPT ![c] = @ \o Tagged(<<ErrorFrame("Error initiating stream")>>, turn[c])]
          /\ hpc' = [hpc EXCEPT ![c] = "recv"]
          /\ UNCHANGED stream
       \/ \E s \in BackendStreams(backend) :
          /\ stream' = [stream EXCEPT ![c] = s]
          /\ hpc' = [hpc EXCEPT ![c] = "stream"]
          /\ UNCHANGED out
    /\ UNCHANGED <<conns, inbox, dm, turn, fed, backend>>
    /\ UNCHANGED otherThanStream

\* One item of `while let Some(chunk_res) = stream.next().await`.  An error
\* item sends the error frame and breaks out of the stream loop, which falls
\* through to the flush and the done frame.
StreamItem(c) ==
    /\ c \in conns
    /\ hpc[c] = "stream"
    /\ stream[c] # <<>>
    /\ LET item == Head(stream[c]) IN
       IF item.ok
       THEN LET r == DemuxChunk(dm[c], item.text) IN
            /\ dm' = [dm EXCEPT ![c] = r.d]
            /\ out' = [out EXCEPT ![c] = @ \o Tagged(r.frames, turn[c])]
            /\ stream' = [stream EXCEPT ![c] = Tail(@)]
            /\ fed' = [fed EXCEPT ![c] = Append(@, item.text)]
            /\ UNCHANGED hpc
       ELSE /\ out' = [out EXCEPT ![c] = @ \o Tagged(
                         <<ErrorFrame("Stream error")>> \o EndOfStream(dm[c]), turn[c])]
            /\ stream' = [stream EXCEPT ![c] = <<>>]
            /\ hpc' = [hpc EXCEPT ![c] = "recv"]
            /\ UNCHANGED <<dm, fed>>
    /\ UNCHANGED <<conns, inbox, turn, agent_lock, backend>>
    /\ UNCHANGED otherThanStream

\* The stream is exhausted: flush what the buffer holds and send done.
StreamEnd(c) ==
    /\ c \in conns
    /\ hpc[c] = "stream"
    /\ stream[c] = <<>>
    /\ out' = [out EXCEPT ![c] = @ \o Tagged(EndOfStream(dm[c]), turn[c])]
    /\ hpc' = [hpc EXCEPT ![c] = "recv"]
    /\ UNCHANGED <<conns, inbox, dm, stream, turn, fed, agent_lock, backend>>
    /\ UNCHANGED otherThanStream

NextStream ==
    \/ \E c \in conns : Recv(c)
    \/ \E c \in conns : AcquireLock(c)
    \/ \E c \in conns : process_message_stream(c)
    \/ \E c \in conns : StreamItem(c)
    \/ \E c \in conns : StreamEnd(c)

SpecDemux == InitDemux /\ [][NextStream]_vars
SpecStream == InitStream /\ [][NextStream]_vars

(***************************************************************************)
(* Claims about the streaming transport.                                   *)
(***************************************************************************)

FramesOfTurn(c, t) == SelectSeq(out[c], LAMBDA f : f.turn = t)
IsTerminal(f) == f.type \in {"done", "error"}
IsContent(f) == f.type \in {"partial", "thinking_fragment"}
Payloads(frames, type) ==
    Concat([i \in 1..Len(SelectSeq(frames, LAMBDA f : f.type = type)) |->
               SelectSeq(frames, LAMBDA f : f.type = type)[i].content])
TurnFinished(c) == hpc[c] \in {"recv", "closed"} /\ turn[c] > 0
TurnClean(c) == \A i \in 1..Len(out[c]) : out[c][i].turn = turn[c] => out[c][i].type # "error"

\* C3: within one connection the frames of the turns come in turn order, and
\* whenever turn k+1 has started (its message was taken from the socket),
\* every earlier turn has already sent its done or error frame.
C3_TurnsSerialized ==
    \A c \in conns :
        /\ \A i, j \in 1..Len(out[c]) :
              (i < j /\ out[c][i].turn > 0 /\ out[c][j].turn > 0)
                  => out[c][i].turn <= out[c][j].turn
        /\ \A k \in 1..(turn[c] - 1) :
              \E i \in 1..Len(out[c]) : out[c][i].turn = k /\ IsTerminal(out[c][i])
        /\ \A i \in 1..Len(out[c]) : out[c][i].turn <= turn[c]

\* C3 witness: a second chat message, queued behind the first, is being
\* streamed after the first turn ended.
C3_Witness ==
    \E c \in conns :
        /\ turn[c] = 2
        /\ hpc[c] = "stream"
        /\ \E i \in 1..Len(out[c]) : out[c][i].turn = 1 /\ out[c][i].type = "done"
        /\ \E i \in 1..Len(out[c]) : out[c][i].turn = 2 /\ out[c][i].type = "typing"

\* C5: a finished turn has sent exactly one terminal frame (done or error),
\* and nothing of a turn follows its error frame.
C5_OneTerminalFrame ==
    \A c \in conns :
        /\ TurnFinished(c) =>
              Len(SelectSeq(FramesOfTurn(c, turn[c]), IsTerminal)) = 1
        /\ \A i, j \in 1..Len(out[c]) :
              (i < j /\ out[c][i].type = "error" /\ out[c][i].turn > 0
                     /\ out[c][j].turn = out[c][i].turn)
                  => ~(IsContent(out[c][j]) \/ out[c][j].type = "done")

\* The thinking text and the visible text of a raw model output, read off the
\* tags: text between <think> and </think> is thinking, the rest is visible.
RECURSIVE RefDemux(_)
RefDemux(raw) ==
    IF ~Contains(raw, OpenTag) THEN [think |-> <<>>, visible |-> raw]
    ELSE LET o == Find(raw, OpenTag)
             pre == SubSeq(raw, 1, o - 1)
             rest == From(raw, o - 1 + Len(OpenTag))
         IN IF ~Contains(rest, CloseTag) THEN [think |-> rest, visible |-> pre]
            ELSE LET e == Find(rest, CloseTag)
                     more == RefDemux(From(rest, e - 1 + Len(CloseTag)))
                 IN [think |-> SubSeq(rest, 1, e - 1) \o more.think,
                     visible |-> pre \o more.visible]

\* C6: for a turn whose stream ended cleanly, the thinking_fragment payloads
\* concatenate to the thinking text of the raw output and the partial payloads
\* to its visible text (as it is, or after the cosmetic cleanup).
C6_FragmentsEqualRawOutput ==
    \A c \in conns :
        (TurnFinished(c) /\ TurnClean(c) /\ turn[c] = 1) =>
            LET raw == Concat(fed[c])
                frames == FramesOfTurn(c, 1)
            IN /\ Payloads(frames, "thinking_fragment") = RefDemux(raw).think
               /\ Payloads(frames, "partial")
                     \in {RefDemux(raw).visible, clean_response_text(RefDemux(raw).visible)}

\* C7: after the three chunks "abc<thi", "nk>XY", "Z</think>answer" the client
\* has been sent, besides the typing announcement, exactly
\* thinking_fragment "XYZ", partial "answer", done.
ScenarioChunks == << <<"a", "b", "c", "<", "t", "h", "i">>,
                     <<"n", "k", ">", "X", "Y">>,
                     <<"Z", "<", "/", "t", "h", "i", "n", "k", ">", "a", "n", "s", "w", "e", "r">> >>
C7_ThinkSplitAcrossChunks ==
    \A c \in conns :
        (TurnFinished(c) /\ TurnClean(c) /\ turn[c] = 1 /\ fed[c] = ScenarioChunks) =>
            LET frames == SelectSeq(FramesOfTurn(c, 1),
                                    LAMBDA f : f.type \notin {"typing", "thinking"})
            IN [i \in 1..Len(frames) |-> <<frames[i].type, frames[i].content>>]
                 = << <<"thinking_fragment", <<"X", "Y", "Z">>>>,
                      <<"partial", <<"a", "n", "s", "w", "e", "r">>>>,
                      <<"done", <<>> >> >>

(***************************************************************************)
(* Part 4.  AIAgent::process_message over its two cache tiers and the      *)
(* history store, and the unary connection handler that calls it.          *)
(***************************************************************************)

\* Bounds of the agent model.
MaxTurns == 2
MaxFaults == 1

\* Chat contents the clients send.
MsgHiCaps == <<"H", "i">>
MsgHiPadded == <<" ", "h", "i", " ">>
MsgYo == <<"y", "o">>
Messages == {MsgHiCaps, MsgHiPadded, MsgYo}

\* A normalization that trims but keeps the letter case.
NormalizedKeepsCase(message) == Trim(message)

\* let normalized_message = message.trim().to_lowercase();
Normalized(message) == ToLowercase(Trim(message))
NormKeys == { Normalized(m) : m \in Messages }

\* What the chat backend may answer.
Replies == {<<>>, <<"r", "1">>, <<"r", "2">>}

\* The backend calls of one turn that can fail, and the sets of them that
\* fail together.
FaultSites ==
    {"redis_get", "redis_set", "embed", "embed_empty", "embed_again", "search",
     "upsert", "hist_get", "hist_user", "hist_assistant", "intent", "answer"}
FaultSets == { F \in SUBSET FaultSites : Cardinality(F) <= MaxFaults }

\* initialize_cache_clients: without enable_cache no client is built; with
\* it, each client is there or not as its connection attempt went.
AgentConfigs ==
    { [enable_cache |-> FALSE, redis_conn |-> FALSE, qdrant_client |-> FALSE,
       ttl |-> 0, threshold |-> 100],
      [enable_cache |-> TRUE, redis_conn |-> TRUE, qdrant_client |-> TRUE,
       ttl |-> 60, threshold |-> 85],
      [enable_cache |-> TRUE, redis_conn |-> TRUE, qdrant_client |-> TRUE,
       ttl |-> 0, threshold |-> 100],
      [enable_cache |-> TRUE, redis_conn |-> TRUE, qdrant_client |-> FALSE,
       ttl |-> 0, threshold |-> 85],
      [enable_cache |-> TRUE, redis_conn |-> FALSE, qdrant_client |-> TRUE,
       ttl |-> 0, threshold |-> 85],
      [enable_cache |-> TRUE, redis_conn |-> FALSE, qdrant_client |-> FALSE,
       ttl |-> 0, threshold |-> 85] }

\* embedding_client.embed(text): an error, an empty vector, or the vector of
\* the text (equal texts have equal vectors).
Embed(text, failed, empty) ==
    IF failed THEN [ok |-> FALSE, embedding |-> <<>>]
    ELSE IF empty THEN [ok |-> TRUE, embedding |-> <<>>]
    ELSE [ok |-> TRUE, embedding |-> text]

\* Cosine similarity in percent.
Score(a, b) == IF a = <<>> \/ b = <<>> THEN 0 ELSE IF a = b THEN 100 ELSE 90

\* search_points(.., limit 1).score_threshold(t): nothing, or one of the
\* best-scoring points at or above the threshold.
search_points(qd, vector, threshold) ==
    LET cands == { p \in qd : Score(vector, p.vector) >= threshold }
        best == { p \in cands :
                    \A q \in cands : Score(vector, q.vector) <= Score(vector, p.vector) }
    IN IF best = {} THEN {None} ELSE { Some(p) : p \in best }

check_redis_cache(cfg, rd, normalized_key, F) ==
    IF ~cfg.enable_cache \/ ~cfg.redis_conn THEN None
    ELSE IF "redis_get" \in F THEN None
    ELSE IF IsSome(rd[normalized_key]) THEN Some(Unwrap(rd[normalized_key]).val)
    ELSE None

\* [ok, hit]: ok is FALSE when the embedding or the search returned an error.
check_qdrant_cache(cfg, qd, normalized_message, F, point) ==
    IF ~cfg.enable_cache \/ ~cfg.qdrant_client THEN [ok |-> TRUE, hit |-> None]
    ELSE LET embed_resp == Embed(normalized_message, "embed" \in F, "embed_empty" \in F) IN
         IF ~embed_resp.ok \/ "search" \in F THEN [ok |-> FALSE, hit |-> None]
         ELSE IF IsSome(point) /\ Score(embed_resp.embedding, Unwrap(point).vector) >= cfg.threshold
         THEN [ok |-> TRUE,
               hit |-> Some([response |-> Unwrap(point).payload.response,
                             embedding |-> embed_resp.embedding])]
         ELSE [ok |-> TRUE, hit |-> None]

\* A prime_redis_cache that never issues the SET.
prime_redis_cache_skipped(cfg, rd, key, value, F) == rd

\* SET with EX when ttl > 0, plain SET otherwise; a failed command is logged.
prime_redis_cache(cfg, rd, key, value, F) ==
    IF cfg.redis_conn /\ "redis_set" \notin F
    THEN [rd EXCEPT ![key] = Some([val |-> value, ex |-> cfg.ttl])]
    ELSE rd

\* prompt_config.intents: the action of an intent name, None when unknown.
IntentAction(intent_name) ==
    CASE intent_name = "rag" -> Some("call_rag_tool")
      [] intent_name = "chat" -> Some("general_llm_call")
      [] intent_name = "odd" -> Some("send_email")
      [] OTHER -> None

\* What the chat backend does in one turn: the intent it names and the reply.
LlmOutcomes ==
    { [intent |-> "chat", reply |-> r] : r \in Replies }
      \cup { [intent |-> "rag", reply |-> <<"r", "1">>],
             [intent |-> "odd", reply |-> <<>>], [intent |-> "nope", reply |-> <<>>] }

\* An execute_llm_interaction that answers with a plain completion when the
\* intent is unknown or its action is not implemented.
execute_llm_interaction_with_fallback(F, llm) ==
    IF "hist_get" \in F THEN [ok |-> FALSE, response |-> <<>>, calls |-> 0]
    ELSE IF "intent" \in F THEN [ok |-> FALSE, response |-> <<>>, calls |-> 1]
    ELSE IF "answer" \in F THEN [ok |-> FALSE, response |-> <<>>, calls |-> 2]
    ELSE [ok |-> TRUE, response |-> llm.reply, calls |-> 2]

\* [ok, response, calls]: calls counts the requests made to the chat backend.
execute_llm_interaction(F, llm) ==
    IF "hist_get" \in F THEN [ok |-> FALSE, response |-> <<>>, calls |-> 0]
    ELSE IF "intent" \in F \/ ~IsSome(IntentAction(llm.intent))
    THEN [ok |-> FALSE, response |-> <<>>, calls |-> 1]
    ELSE IF Unwrap(IntentAction(llm.intent)) \in {"call_rag_tool", "general_llm_call"}
    THEN IF "answer" \in F THEN [ok |-> FALSE, response |-> <<>>, calls |-> 2]
         ELSE [ok |-> TRUE, response |-> llm.reply, calls |-> 2]
    ELSE [ok |-> FALSE, response |-> <<>>, calls |-> 1]

update_qdrant_cache(cfg, qd, normalized_prompt, response, embedding, F) ==
    IF ~cfg.enable_cache \/ ~cfg.qdrant_client \/ embedding = <<>> THEN qd
    ELSE IF "upsert" \in F THEN qd
    ELSE qd \cup { [id |-> Cardinality(qd) + 1, vector |-> embedding,
                    payload |-> [normalized_prompt |-> normalized_prompt,
                                 response |-> response]] }

\* history_store.add_message: nothing is stored when the call fails.
add_message(hist, conversation_id, role, content, failed) ==
    IF failed THEN hist
    ELSE [hist EXCEPT ![conversation_id] = Append(@, [role |-> role, content |-> content])]

\* The outcome of process_message and the stores as it leaves them.
Outcome(ok, response, calls, rd, qd, hist) ==
    [ok |-> ok, response |-> response, calls |-> calls, embeds |-> 0,
     redis |-> rd, qdrant |-> qd, history |-> hist]

\* The outcome o of a path on which embedding_client.embed was called n times
\* more.
Embedded(o, n) == [o EXCEPT !.embeds = @ + n]

\* The two add_message calls of a cache hit: a failure is only a warning.
RecordHit(hist, conversation_id, message, cached_response, F) ==
    add_message(add_message(hist, conversation_id, "user", message, "hist_user" \in F),
                conversation_id, "assistant", cached_response, "hist_assistant" \in F)

\* process_message after the cache lookups missed: the LLM interaction, the
\* cache population and the history appends, each `?` an early return.
AfterMiss(cfg, rd, qd, hist, conversation_id, message, F, maybe_embedding, llm) ==
    LET normalized_message == Normalized(message)
        r == execute_llm_interaction(F, llm)
    IN IF ~r.ok THEN Outcome(FALSE, <<>>, r.calls, rd, qd, hist)
       ELSE
       LET rd1 == IF cfg.enable_cache
                  THEN prime_redis_cache(cfg, rd, normalized_message, r.response, F)
                  ELSE rd
           emb == IF IsSome(maybe_embedding)
                  THEN [ok |-> TRUE, embedding |-> Unwrap(maybe_embedding)]
                  ELSE Embed(normalized_message, "embed_again" \in F, "embed_empty" \in F)
       IN Embedded(
          IF cfg.enable_cache /\ ~emb.ok THEN Outcome(FALSE, <<>>, r.calls, rd1, qd, hist)
          ELSE
          LET qd1 == IF cfg.enable_cache
                     THEN update_qdrant_cache(cfg, qd, normalized_message, r.response,
                                              emb.embedding, F)
                     ELSE qd
              h1 == add_message(hist, conversation_id, "user", message, FALSE)
              h2 == add_message(h1, conversation_id, "assistant", r.response, FALSE)
          IN IF "hist_user" \in F THEN Outcome(FALSE, <<>>, r.calls, rd1, qd1, hist)
             ELSE IF "hist_assistant" \in F THEN Outcome(FALSE, <<>>, r.calls, rd1, qd1, h1)
             ELSE Outcome(TRUE, r.response, r.calls, rd1, qd1, h2),
          IF cfg.enable_cache /\ ~IsSome(maybe_embedding) THEN 1 ELSE 0)

\* AIAgent::process_message.  F, point and llm are what the backends do
\* during the call.
process_message(cfg, rd, qd, hist, conversation_id, message, F, point, llm) ==
    LET normalized_message == Normalized(message)
        redis_hit == check_redis_cache(cfg, rd, normalized_message, F)
        qdrant_hit == check_qdrant_cache(cfg, qd, normalized_message, F, point)
    IN IF IsSome(redis_hit)
       THEN Outcome(TRUE, Unwrap(redis_hit), 0, rd, qd,
                    RecordHit(hist, conversation_id, message, Unwrap(redis_hit), F))
       ELSE Embedded(
       IF ~qdrant_hit.ok THEN Outcome(FALSE, <<>>, 0, rd, qd, hist)
       ELSE IF IsSome(qdrant_hit.hit) /\ Unwrap(qdrant_hit.hit).response # <<>>
       THEN LET cached_response == Unwrap(qdrant_hit.hit).response IN
            Outcome(TRUE, cached_response, 0,
                    prime_redis_cache(cfg, rd, normalized_message, cached_response, F), qd,
                    RecordHit(hist, conversation_id, message, cached_response, F))
       ELSE AfterMiss(cfg, rd, qd, hist, conversation_id, message, F,
                      IF IsSome(qdrant_hit.hit)
                      THEN Some(Unwrap(qdrant_hit.hit).embedding) ELSE None,
                      llm),
       IF cfg.enable_cache /\ cfg.qdrant_client THEN 1 ELSE 0)

\* Frames of the unary handler's clients.
UnaryChat(content) == [kind |-> "chat", len |-> Len(content) + 28, content |-> content]
UnaryInvalid == [kind |-> "invalid", len |-> 2, content |-> <<>>]
UnaryFrames == { UnaryChat(m) : m \in Messages } \cup {UnaryInvalid}

\* An entry of the log: a turn of process_message, or the expiry of a key.
\* intent is the name the classifier gave when the table cannot serve it.
TurnEntry(c, message, F, llm, o) ==
    [what |-> "turn", conn |-> c, message |-> message, key |-> Normalized(message),
     ok |-> o.ok, response |-> o.response, calls |-> o.calls, embeds |-> o.embeds,
     faults |-> F,
     intent |-> IF o.calls >= 1 /\ "intent" \notin F /\ llm.intent \in {"odd", "nope"}
                THEN llm.intent ELSE "",
     exact_ok |-> acfg.enable_cache /\ acfg.redis_conn
                    /\ F \cap {"redis_get", "redis_set"} = {}]
ExpiryEntry(k) ==
    [what |-> "expiry", conn |-> 0, message |-> <<>>, key |-> k,
     ok |-> FALSE, response |-> <<>>, calls |-> 0, embeds |-> 0, faults |-> {},
     intent |-> "",
     exact_ok |-> TRUE]

\* Backend calls that have failed so far.
RECURSIVE FaultsIn(_)
FaultsIn(entries) ==
    IF entries = <<>> THEN 0
    ELSE Cardinality(Head(entries).faults) + FaultsIn(Tail(entries))

(***************************************************************************)
(* Prompt configuration: loading, validation and reload.                   *)
(***************************************************************************)

\* A prompts file with every required key but k.
DocMissing(k) == [parses |-> TRUE, keys |-> RequiredKeys \ {k}, rev |-> 3]

\* A prompts file that is not the JSON of a PromptConfig.
DocGarbage == [parses |-> FALSE, keys |-> {}, rev |-> 0]

PromptDocs == {DocFull(1), DocFull(2), DocGarbage} \cup { DocMissing(k) : k \in RequiredKeys }

\* The documents an edit of the running process's file puts in place.
EditDocs == {DocFull(2), DocGarbage, DocMissing("fallback_topic_resolver"),
             DocMissing("rag_final_answer")}

LoadErr == [ok |-> FALSE]

\* PromptConfig::_validate
validate(config) ==
    /\ "intent_classification" \in config.keys
    /\ "rag_topic_inference" \in config.keys
    /\ "rag_dynamic_query_generation" \in config.keys
    /\ "rag_final_answer" \in config.keys

\* config::prompt::load_prompts_from_str at wall-clock time t
load_prompts_from_str(doc, t) ==
    IF ~doc.parses THEN LoadErr
    ELSE LET config == [keys |-> doc.keys, rev |-> doc.rev, last_loaded |-> t]
         IN IF validate(config) THEN [ok |-> TRUE, config |-> config] ELSE LoadErr

\* config::prompt::load_prompts_from_file_internal
load_prompts_from_file_internal(file, t) ==
    IF file = None THEN LoadErr ELSE load_prompts_from_str(Unwrap(file).doc, t)

\* config::remote_config::load_prompts_from_file
load_prompts_from_file(file, t) ==
    IF file = None THEN LoadErr
    ELSE IF ~Unwrap(file).doc.parses THEN LoadErr
    ELSE [ok |-> TRUE,
          config |-> [keys |-> Unwrap(file).doc.keys, rev |-> Unwrap(file).doc.rev,
                      last_loaded |-> t]]

\* config::prompt::reload_prompts_if_changed: Err, Ok(None) or Ok(Some(new)).
\* Every loader sets last_loaded, so the branch for a snapshot without one
\* is never taken.
prompt_reload_prompts_if_changed(file, current_config, t) ==
    IF file = None THEN [ok |-> FALSE, new |-> None]
    ELSE IF Unwrap(file).mtime > current_config.last_loaded
    THEN LET r == load_prompts_from_file_internal(file, t)
         IN IF r.ok THEN [ok |-> TRUE, new |-> Some(r.config)]
            ELSE [ok |-> FALSE, new |-> None]
    ELSE [ok |-> TRUE, new |-> None]

\* A reload that installs the new snapshot before it reads the schema files.
reload_prompts_if_changed_swap_first(file, schema, fschema, current, rag, t) ==
    LET result == prompt_reload_prompts_if_changed(file, Unwrap(current), t)
    IN IF ~result.ok THEN [ret |-> "err", prompt_config |-> current, rag_tool |-> rag]
       ELSE IF result.new = None
       THEN [ret |-> "false", prompt_config |-> current, rag_tool |-> rag]
       ELSE IF ~schema \/ fschema = "garbage"
       THEN [ret |-> "err", prompt_config |-> result.new, rag_tool |-> rag]
       ELSE [ret |-> "true", prompt_config |-> result.new,
             rag_tool |-> RagEngine(Unwrap(result.new),
                                    IF fschema = "missing" THEN "empty" ELSE "loaded")]

\* A reload that swaps the agent's snapshot and leaves the RagEngine alone.
reload_prompts_if_changed_keeps_engine(file, schema, fschema, current, rag, t) ==
    LET result == prompt_reload_prompts_if_changed(file, Unwrap(current), t)
    IN IF ~result.ok THEN [ret |-> "err", prompt_config |-> current, rag_tool |-> rag]
       ELSE IF result.new = None
       THEN [ret |-> "false", prompt_config |-> current, rag_tool |-> rag]
       ELSE IF ~schema \/ fschema = "garbage"
       THEN [ret |-> "err", prompt_config |-> current, rag_tool |-> rag]
       ELSE [ret |-> "true", prompt_config |-> result.new, rag_tool |-> rag]

\* AIAgent::reload_prompts_if_changed: Ok(true), Ok(false) or Err, and the
\* snapshot of the agent and its RagEngine afterwards.  schema: the schema
\* file reads and parses; fschema: the state of the function schema file,
\* which is replaced by an empty schema when it cannot be read.
reload_prompts_if_changed(file, schema, fschema, current, rag, t) ==
    LET result == prompt_reload_prompts_if_changed(file, Unwrap(current), t)
    IN IF ~result.ok THEN [ret |-> "err", prompt_config |-> current, rag_tool |-> rag]
       ELSE IF result.new = None
       THEN [ret |-> "false", prompt_config |-> current, rag_tool |-> rag]
       ELSE IF ~schema THEN [ret |-> "err", prompt_config |-> current, rag_tool |-> rag]
       ELSE IF fschema = "garbage"
       THEN [ret |-> "err", prompt_config |-> current, rag_tool |-> rag]
       ELSE [ret |-> "true", prompt_config |-> result.new,
             rag_tool |-> RagEngine(Unwrap(result.new),
                                    IF fschema = "missing" THEN "empty" ELSE "loaded")]

\* The first step of a reload that does not go through, given the files.
FailingStep(file, schema, fschema, current) ==
    IF file = None THEN "stat"
    ELSE IF ~(Unwrap(file).mtime > Unwrap(current).last_loaded) THEN "none"
    ELSE IF ~Unwrap(file).doc.parses THEN "parse"
    ELSE IF ~validate(Unwrap(file).doc) THEN "validation"
    ELSE IF ~schema THEN "schema"
    ELSE IF fschema = "missing" THEN "function_schema_read"
    ELSE IF fschema = "garbage" THEN "function_schema_parse"
    ELSE "none"

\* What a call of reload_prompts_if_changed found and did.
ReloadEntry(file, schema, fschema, current, rag, r) ==
    [ret |-> r.ret,
     swapped |-> r.prompt_config # current,
     rag_swapped |-> r.rag_tool # rag,
     old |-> Unwrap(current).last_loaded,
     new |-> Unwrap(r.prompt_config).last_loaded,
     newer |-> file # None /\ Unwrap(file).mtime > Unwrap(current).last_loaded,
     good |-> file # None /\ Unwrap(file).doc.parses
                /\ RequiredKeys \subseteq Unwrap(file).doc.keys,
     step |-> FailingStep(file, schema, fschema, current)]

\* Handlers cs have just been spawned around one agent built from cfg.
InitUnaryHandlers(cs, boxes) ==
    /\ AuthSettled
    /\ PromptSettled
    /\ RemoteIdle
    /\ ToolsIdle
    /\ conns = cs
    /\ inbox = boxes
    /\ hpc = [c \in cs |-> "setup"]
    /\ dm = [c \in cs |-> DemuxInit]
    /\ stream = [c \in cs |-> <<>>]
    /\ out = [c \in cs |-> <<>>]
    /\ turn = [c \in cs |-> 0]
    /\ fed = [c \in cs |-> <<>>]
    /\ agent_lock = 0
    /\ backend = "none"
    /\ acfg \in AgentConfigs
    /\ redis = [k \in NormKeys |-> None]
    /\ qdrant = {}
    /\ history = [c \in cs |-> <<>>]
    /\ pending = [c \in cs |-> <<>>]
    /\ log = <<>>

\* One client that says "Hi" and then sends MaxTurns further chat messages.
InitAgent ==
    \E rest \in { q \in SeqsUpTo(Messages, MaxTurns) : Len(q) = MaxTurns } :
        InitUnaryHandlers({1}, [c \in {1} |-> <<UnaryChat(MsgHiCaps)>>
                                      \o [i \in 1..MaxTurns |-> UnaryChat(rest[i])]])

\* Two clients; the first may send a frame that does not parse before its
\* chat message.
InitUnary ==
    \E box \in { <<UnaryChat(MsgHiCaps)>>, <<UnaryInvalid, UnaryChat(MsgHiPadded)>> } :
        InitUnaryHandlers({1, 2},
                          [c \in {1, 2} |-> IF c = 1 THEN box ELSE <<UnaryChat(MsgYo)>>])

otherThanUnary == <<authVars, conns, dm, stream, fed, backend, remoteVars, toolVars>>

\* On connect the handler takes the agent lock, reloads prompts and schema
\* when they changed, and drops the guard.
Setup(c) ==
    /\ c \in conns
    /\ hpc[c] = "setup"
    /\ boot = "running"
    /\ agent_lock = 0
    /\ LET r == reload_prompts_if_changed(prompts_file, schema_ok, function_schema_file,
                                          prompt_config, rag_tool, wall)
       IN /\ prompt_config' = r.prompt_config
          /\ rag_tool' = r.rag_tool
          /\ last_reload' = ReloadEntry(prompts_file, schema_ok, function_schema_file,
                                       prompt_config, rag_tool, r)
    /\ hpc' = [hpc EXCEPT ![c] = "recv"]
    /\ UNCHANGED <<inbox, out, turn, agent_lock>>
    /\ UNCHANGED <<boot, wall, prompts_file, schema_ok, function_schema_file, used>>
    /\ UNCHANGED agentVars
    /\ UNCHANGED otherThanUnary

\* The loop body of the unary handler up to the call of the agent.
RecvUnary(c) ==
    /\ c \in conns
    /\ AtLoopTop(c)
    /\ inbox[c] # <<>>
    /\ LET m == Head(inbox[c]) IN
       /\ inbox' = [inbox EXCEPT ![c] = Tail(@)]
       /\ IF TooLarge(m)
          THEN /\ out' = [out EXCEPT ![c] = @ \o Tagged(<<ErrorFrame("Message too large")>>, 0)]
               /\ hpc' = [hpc EXCEPT ![c] = "closed"]
               /\ UNCHANGED <<turn, pending>>
          ELSE IF m.kind = "chat"
          THEN /\ turn' = [turn EXCEPT ![c] = @ + 1]
               /\ out' = [out EXCEPT ![c] = @ \o Tagged(<<Frame("processing", <<>>)>>, turn[c] + 1)]
               /\ hpc' = [hpc EXCEPT ![c] = "lock"]
               /\ pending' = [pending EXCEPT ![c] = m.content]
          ELSE /\ out' = [out EXCEPT ![c] = @ \o Tagged(<<ErrorFrame("Failed to parse message")>>, 0)]
               /\ UNCHANGED <<hpc, turn, pending>>
    /\ UNCHANGED <<agent_lock, acfg, redis, qdrant, history, log>>
    /\ UNCHANGED promptVars
    /\ UNCHANGED otherThanUnary

\* agent.lock().await.process_message(&conversation_id, &content).await and
\* the frame that answers it; the guard lives until the call has returned.
CallAgent(c) ==
    /\ c \in conns
    /\ hpc[c] = "agent"
    /\ agent_lock = c
    /\ \E F \in { G \in FaultSets : FaultsIn(log) + Cardinality(G) <= MaxFaults },
          llm \in LlmOutcomes :
       \E point \in search_points(qdrant,
                                  Embed(Normalized(pending[c]), "embed" \in F,
                                        "embed_empty" \in F).embedding,
                                  acfg.threshold) :
          LET o == process_message(acfg, redis, qdrant, history, c, pending[c],
                                   F, point, llm)
          IN /\ redis' = o.redis
             /\ qdrant' = o.qdrant
             /\ history' = o.history
             /\ log' = Append(log, TurnEntry(c, pending[c], F, llm, o))
             /\ out' = [out EXCEPT ![c] = @ \o Tagged(
                          IF o.ok THEN <<Frame("response", o.response)>>
                          ELSE <<ErrorFrame("Error processing message")>>, turn[c])]
    /\ agent_lock' = 0
    /\ hpc' = [hpc EXCEPT ![c] = "recv"]
    /\ pending' = [pending EXCEPT ![c] = <<>>]
    /\ UNCHANGED <<inbox, turn, acfg>>
    /\ UNCHANGED promptVars
    /\ UNCHANGED otherThanUnary

\* The exact tier drops a key whose time to live has run out.
Expire(k) ==
    /\ k \in DOMAIN redis
    /\ IsSome(redis[k])
    /\ Unwrap(redis[k]).ex > 0
    /\ redis' = [redis EXCEPT ![k] = None]
    /\ log' = Append(log, ExpiryEntry(k))
    /\ UNCHANGED <<acfg, qdrant, history, pending>>
    /\ UNCHANGED <<authVars, streamVars, promptVars, remoteVars, toolVars>>

NextAgent ==
    \/ \E c \in conns : Setup(c)
    \/ \E c \in conns : RecvUnary(c)
    \/ \E c \in conns : AcquireLock(c)
    \/ \E c \in conns : CallAgent(c)
    \/ \E k \in NormKeys : Expire(k)

SpecAgent == InitAgent /\ [][NextAgent]_vars
SpecUnary == InitUnary /\ [][NextAgent]_vars

(***************************************************************************)
(* Claims about turns across connections and about the agent's cache.      *)
(***************************************************************************)

\* C4: a chat turn waiting to start on one connection is never held up by
\* the turn in progress on another connection, that is, no handler waits for
\* the agent while another connection's turn holds it.
C4_TurnsIndependent ==
    \A c, d \in conns :
        (c # d /\ hpc[c] = "lock") => ~(agent_lock = d /\ hpc[d] = "agent")

\* The turn that has just returned, when nothing happened since.
LastTurn == log[Len(log)]
JustReturned == log # <<>> /\ LastTurn.what = "turn"
ExactLookup(k) ==
    IF k \in DOMAIN redis /\ IsSome(redis[k]) THEN Some(Unwrap(redis[k]).val) ELSE None

\* The normalized prompt of a message: trimmed of surrounding whitespace and
\* lowercased.
NormalizedPrompt(m) == ToLowercase(Trim(m))

\* C8: right after a turn that returned a non-empty response, with the cache
\* enabled and the exact tier connected and answering, the exact tier holds
\* that response under the normalized prompt.
C8_ExactTierHoldsResponse ==
    (/\ JustReturned
     /\ acfg.enable_cache
     /\ LastTurn.exact_ok
     /\ LastTurn.ok
     /\ LastTurn.response # <<>>)
        => ExactLookup(NormalizedPrompt(LastTurn.message)) = Some(LastTurn.response)

\* C8 witness: a turn that went to the chat backend has returned a non-empty
\* response for a message whose normalized form differs from it.
C8_Witness ==
    /\ JustReturned
    /\ acfg.enable_cache
    /\ LastTurn.exact_ok
    /\ LastTurn.ok
    /\ LastTurn.response # <<>>
    /\ LastTurn.calls > 0
    /\ NormalizedPrompt(LastTurn.message) # LastTurn.message

\* Turns i < j of one connection with the same normalized prompt, the first
\* successful, with no expiry of the key in between.
RepeatedPrompt(i, j) ==
    /\ i < j
    /\ log[i].what = "turn" /\ log[j].what = "turn"
    /\ log[i].conn = log[j].conn
    /\ NormalizedPrompt(log[i].message) = NormalizedPrompt(log[j].message)
    /\ log[i].ok
    /\ \A n \in (i + 1)..(j - 1) :
          ~(log[n].what = "expiry" /\ log[n].key = NormalizedPrompt(log[i].message))
SameAnswerNoCall(i, j) ==
    log[j].ok /\ log[j].response = log[i].response /\ log[j].calls = 0

IsDigit(c) == c \in {"0", "1", "2", "3", "4", "5", "6", "7", "8", "9"}
JsonFail == [ok |-> FALSE, kind |-> "", val |-> <<>>, next |-> 0]

RECURSIVE SkipWs(_, _)
SkipWs(s, i) == IF i <= Len(s) /\ IsSpace(s[i]) THEN SkipWs(s, i + 1) ELSE i

\* The position of the quote that closes a string whose text starts at j,
\* 0 when there is none.
RECURSIVE StringEnd(_, _)
StringEnd(s, j) ==
    IF j > Len(s) \/ s[j] = "\\" THEN 0
    ELSE IF s[j] = "\"" THEN j
    ELSE StringEnd(s, j + 1)

ParseString(s, i) ==
    IF i > Len(s) \/ s[i] # "\"" THEN JsonFail
    ELSE LET e == StringEnd(s, i + 1) IN
         IF e = 0 THEN JsonFail
         ELSE [ok |-> TRUE, kind |-> "string", val |-> SubSeq(s, i + 1, e - 1), next |-> e + 1]

RECURSIVE NumberEnd(_, _)
NumberEnd(s, j) == IF j <= Len(s) /\ IsDigit(s[j]) THEN NumberEnd(s, j + 1) ELSE j

ParseValue(s, i) ==
    IF i > Len(s) THEN JsonFail
    ELSE IF s[i] = "\"" THEN ParseString(s, i)
    ELSE IF IsDigit(s[i])
    THEN [ok |-> TRUE, kind |-> "number", val |-> SubSeq(s, i, NumberEnd(s, i) - 1),
          next |-> NumberEnd(s, i)]
    ELSE IF i + 3 <= Len(s) /\ SubSeq(s, i, i + 3) = <<"t", "r", "u", "e">>
    THEN [ok |-> TRUE, kind |-> "bool", val |-> <<"t", "r", "u", "e">>, next |-> i + 4]
    ELSE JsonFail

\* The members of an object from the key at i on: [ok, fields, next].
RECURSIVE ParseMembers(_, _, _)
ParseMembers(s, i, acc) ==
    LET k == ParseString(s, i)
        c == SkipWs(s, k.next)
        v == ParseValue(s, SkipWs(s, c + 1))
        d == SkipWs(s, v.next)
        acc1 == Append(acc, [key |-> k.val, kind |-> v.kind, val |-> v.val])
    IN IF ~k.ok \/ c > Len(s) THEN [ok |-> FALSE, fields |-> <<>>, next |-> 0]
       ELSE IF s[c] # ":" \/ ~v.ok \/ d > Len(s) THEN [ok |-> FALSE, fields |-> <<>>, next |-> 0]
       ELSE IF s[d] = "}" THEN [ok |-> TRUE, fields |-> acc1, next |-> d + 1]
       ELSE IF s[d] = "," THEN ParseMembers(s, SkipWs(s, d + 1), acc1)
       ELSE [ok |-> FALSE, fields |-> <<>>, next |-> 0]

from_str(s) ==
    LET i == SkipWs(s, 1)
        j == SkipWs(s, i + 1)
        r == IF j <= Len(s) /\ s[j] = "}"
             THEN [ok |-> TRUE, fields |-> <<>>, next |-> j + 1]
             ELSE ParseMembers(s, j, <<>>)
    IN IF i > Len(s) THEN [ok |-> FALSE, fields |-> <<>>]
       ELSE IF s[i] # "{" \/ ~r.ok THEN [ok |-> FALSE, fields |-> <<>>]
       ELSE IF SkipWs(s, r.next) <= Len(s) THEN [ok |-> FALSE, fields |-> <<>>]
       ELSE [ok |-> TRUE, fields |-> r.fields]

\* json_val.get("response").and_then(|v| v.as_str()); a repeated key keeps
\* its last value.
ResponseKey == <<"r", "e", "s", "p", "o", "n", "s", "e">>
QuotedResponseKey == <<"\"", "r", "e", "s", "p", "o", "n", "s", "e", "\"">>
get_response_str(fields) ==
    LET at == { n \in 1..Len(fields) : fields[n].key = ResponseKey } IN
    IF at = {} THEN None
    ELSE LET last == CHOOSE n \in at : \A m \in at : m <= n IN
         IF fields[last].kind = "string" THEN Some(fields[last].val) ELSE None

\* What check() hands back for a stored value: the "response" member when
\* the value is a JSON object that has one, the value itself otherwise.
EnvelopeResponse(val) ==
    IF StartsWith(val, <<"{">>) /\ Contains(val, QuotedResponseKey)
    THEN LET json_val == from_str(val) IN
         IF json_val.ok /\ IsSome(get_response_str(json_val.fields))
         THEN Unwrap(get_response_str(json_val.fields))
         ELSE val
    ELSE val

\* Bound of the facade model: cache operations in one behaviour.
MaxOps == 2

\* Responses handed to update(): plain text, an envelope, an object whose
\* "response" is a number, an object cut short, and an object that only
\* mentions "response" as a value.
ValPlain == <<"h", "e", "l", "l", "o">>
ValEnvelope == <<"{", "\"", "r", "e", "s", "p", "o", "n", "s", "e", "\"", ":", "\"", "x", "\"", "}">>
ValNumber == <<"{", "\"", "r", "e", "s", "p", "o", "n", "s", "e", "\"", ":", "1", "}">>
ValCut == <<"{", "\"", "r", "e", "s", "p", "o", "n", "s", "e", "\"", ":", "\"", "x", "\"">>
ValMention == <<"{", "\"", "a", "\"", ":", "\"", "r", "e", "s", "p", "o", "n", "s", "e", "\"", "}">>
CacheValues == {ValPlain, ValEnvelope, ValNumber, ValCut, ValMention}

\* redis::get: Some(value), or None for no connection, a missing key or any
\* error of the command.
redis_get(cfg, rd, key, F) ==
    IF cfg.redis_conn /\ "redis_get" \notin F /\ IsSome(rd[key])
    THEN Some(Unwrap(rd[key]).val)
    ELSE None

\* redis::set: [ok, redis]; without a connection nothing is written and the
\* result is Ok.
redis_set(cfg, rd, key, val, F) ==
    IF ~cfg.redis_conn THEN [ok |-> TRUE, redis |-> rd]
    ELSE IF "redis_set" \in F THEN [ok |-> FALSE, redis |-> rd]
    ELSE [ok |-> TRUE, redis |-> [rd EXCEPT ![key] = Some([val |-> val, ex |-> cfg.ttl])]]

\* SearchPointsBuilder::new(collection, embedding, 1): the nearest point.
nearest_points(qd, vector) ==
    LET best == { p \in qd : \A q \in qd : Score(vector, q.vector) <= Score(vector, p.vector) }
    IN IF best = {} THEN {None} ELSE { Some(p) : p \in best }

\* qdrant::search: the response of the nearest point when its score reaches
\* the threshold.
qdrant_search(cfg, embedding, F, point) ==
    IF ~cfg.qdrant_client \/ "search" \in F \/ ~IsSome(point) THEN None
    ELSE IF Score(embedding, Unwrap(point).vector) < cfg.threshold THEN None
    ELSE Some([response |-> Unwrap(point).payload.response, embedding |-> embedding])

\* qdrant::upsert: skipped without a client or with an empty embedding; the
\* result of the request is dropped.
qdrant_upsert(cfg, qd, normalized, response, embedding, F) ==
    IF ~cfg.qdrant_client \/ embedding = <<>> \/ "upsert" \in F THEN qd
    ELSE qd \cup { [id |-> Cardinality(qd) + 1, vector |-> embedding,
                    payload |-> [normalized_prompt |-> normalized,
                                 response |-> response]] }

\* cache::check: [ok, hit] with hit an Option of [response, embedding].
check(cfg, rd, qd, normalized, F, point) ==
    LET val == redis_get(cfg, rd, normalized, F)
        emb == Embed(normalized, "embed" \in F, "embed_empty" \in F)
        found == qdrant_search(cfg, emb.embedding, F, point)
    IN IF IsSome(val)
       THEN [ok |-> TRUE,
             hit |-> Some([response |-> EnvelopeResponse(Unwrap(val)), embedding |-> <<>>])]
       ELSE IF ~emb.ok THEN [ok |-> FALSE, hit |-> None]
       ELSE IF IsSome(found)
       THEN [ok |-> TRUE,
             hit |-> Some([response |-> EnvelopeResponse(Unwrap(found).response),
                           embedding |-> Unwrap(found).embedding])]
       ELSE [ok |-> TRUE, hit |-> None]

\* cache::update: [ok, redis, qdrant]; a failed SET returns before the upsert.
update(cfg, rd, qd, normalized, response, embedding, F) ==
    LET w == redis_set(cfg, rd, normalized, response, F) IN
    IF ~w.ok THEN [ok |-> FALSE, redis |-> rd, qdrant |-> qd]
    ELSE [ok |-> TRUE, redis |-> w.redis,
          qdrant |-> qdrant_upsert(cfg, qd, normalized, response, embedding, F)]

\* serde_json's rendering of a string: quoted, with quotes and backslashes
\* escaped.
RECURSIVE JsonEscape(_)
JsonEscape(t) ==
    IF t = <<>> THEN <<>>
    ELSE (IF Head(t) \in {"\"", "\\"} THEN <<"\\", Head(t)>> ELSE <<Head(t)>>)
         \o JsonEscape(Tail(t))
JsonString(t) == <<"\"">> \o JsonEscape(t) \o <<"\"">>

\* json!({"response": .., "thinking": .., "is_streaming": true}).to_string():
\* the members in the order of serde_json's map, which sorts the keys.
combined_response(full_response, thinking) ==
    <<"{", "\"", "i", "s", "_", "s", "t", "r", "e", "a", "m", "i", "n", "g", "\"", ":", "t", "r", "u", "e", ",", "\"", "r", "e", "s", "p", "o", "n", "s", "e", "\"", ":">> \o JsonString(full_response)
    \o <<",", "\"", "t", "h", "i", "n", "k", "i", "n", "g", "\"", ":">> \o JsonString(thinking) \o <<"}">>

\* An update_streaming that writes the plain response to tier B in both cases.
update_streaming_plain(cfg, rd, qd, query, full_response, thinking, embedding, F) ==
    update(cfg, rd, qd, query, full_response, embedding, F)

\* cache::update_streaming: [ok, redis, qdrant].  The exact tier gets the
\* response; the semantic tier gets the response, or with thinking text the
\* JSON of response, thinking and is_streaming.
update_streaming(cfg, rd, qd, query, full_response, thinking, embedding, F) ==
    LET w == redis_set(cfg, rd, query, full_response, F) IN
    IF ~w.ok THEN [ok |-> FALSE, redis |-> rd, qdrant |-> qd]
    ELSE [ok |-> TRUE, redis |-> w.redis,
          qdrant |-> IF ~cfg.qdrant_client THEN qd
                     ELSE IF IsSome(thinking)
                     THEN qdrant_upsert(cfg, qd, query,
                                        combined_response(full_response, Unwrap(thinking)),
                                        embedding, F)
                     ELSE qdrant_upsert(cfg, qd, query, full_response, embedding, F)]

\* The thinking text of a streamed turn.
ThinkingText == <<"h", "m">>

CacheFaultSets ==
    { F \in SUBSET {"redis_get", "redis_set", "embed", "embed_empty", "search", "upsert"} :
        FaultsIn(log) + Cardinality(F) <= MaxFaults }

\* An entry of the log for a call of the facade.
CacheEntry(what, key, value, ok, hit, F) ==
    [what |-> what, conn |-> 0, key |-> key, value |-> value, ok |-> ok, hit |-> hit,
     faults |-> F]

\* cache::init has run; no handler exists.
InitCache ==
    /\ AuthSettled
    /\ StreamIdle
    /\ PromptSettled
    /\ RemoteIdle
    /\ ToolsIdle
    /\ acfg \in AgentConfigs
    /\ redis = [k \in NormKeys |-> None]
    /\ qdrant = {}
    /\ history = <<>>
    /\ pending = <<>>
    /\ log = <<>>

CacheUpdate ==
    /\ Len(log) < MaxOps
    /\ \E k \in NormKeys, v \in CacheValues, F \in CacheFaultSets :
       \E embedding \in {k, <<>>} :
          LET u == update(acfg, redis, qdrant, k, v, embedding, F) IN
          /\ redis' = u.redis
          /\ qdrant' = u.qdrant
          /\ log' = Append(log, CacheEntry("update", k, v, u.ok, None, F))
    /\ UNCHANGED <<acfg, history, pending>>
    /\ UNCHANGED <<authVars, streamVars, promptVars, remoteVars, toolVars>>

CacheCheck ==
    /\ Len(log) < MaxOps
    /\ \E k \in NormKeys, F \in CacheFaultSets :
       \E point \in nearest_points(qdrant, Embed(k, "embed" \in F, "embed_empty" \in F).embedding) :
          LET r == check(acfg, redis, qdrant, k, F, point) IN
          log' = Append(log, CacheEntry("check", k, <<>>, r.ok, r.hit, F))
    /\ UNCHANGED <<acfg, redis, qdrant, history, pending>>
    /\ UNCHANGED <<authVars, streamVars, promptVars, remoteVars, toolVars>>

CacheUpdateStreaming ==
    /\ Len(log) < MaxOps
    /\ \E k \in NormKeys, thinking \in {None, Some(ThinkingText)}, F \in CacheFaultSets :
       \E embedding \in {k, <<>>} :
          LET u == update_streaming(acfg, redis, qdrant, k, ValPlain, thinking, embedding, F) IN
          /\ redis' = u.redis
          /\ qdrant' = u.qdrant
          /\ log' = Append(log, CacheEntry(IF IsSome(thinking) THEN "update_streaming_thinking"
                                           ELSE "update_streaming",
                                           k, ValPlain, u.ok, None, F))
    /\ UNCHANGED <<acfg, history, pending>>
    /\ UNCHANGED <<authVars, streamVars, promptVars, remoteVars, toolVars>>

NextCache ==
    \/ CacheUpdate
    \/ CacheUpdateStreaming
    \/ CacheCheck
    \/ \E k \in NormKeys : Expire(k)

SpecCache == InitCache /\ [][NextCache]_vars

\* C10: a check that directly follows a successful update of the same key,
\* with the exact tier connected and its GET answered, returns the response
\* that was written, character for character.
C10_UpdateThenCheck ==
    \A i \in 1..(Len(log) - 1) :
        (/\ log[i].what = "update" /\ log[i + 1].what = "check"
         /\ log[i].key = log[i + 1].key
         /\ acfg.redis_conn
         /\ log[i].ok
         /\ "redis_get" \notin log[i + 1].faults)
            => /\ log[i + 1].ok
               /\ IsSome(log[i + 1].hit)
               /\ Unwrap(log[i + 1].hit).response = log[i].value

(***************************************************************************)
(* Claims about what the agent caches, its error handling and its history. *)
(***************************************************************************)

\* C11: neither cache tier ever holds an entry whose response is the empty
\* string.
C11_NoEmptyResponseCached ==
    /\ \A k \in DOMAIN redis : IsSome(redis[k]) => Unwrap(redis[k]).val # <<>>
    /\ \A p \in qdrant : p.payload.response # <<>>

\* The backend calls of the cache lookup.
LookupSites == {"redis_get", "embed", "search"}

\* C12: a turn in which only cache-lookup calls failed either succeeds or
\* fails after it has gone on to intent classification, as a turn that
\* missed the cache would; a lookup error alone never ends the turn.
C12_LookupErrorsDegradeToMiss ==
    \A i \in 1..Len(log) :
        (/\ log[i].what = "turn"
         /\ log[i].faults # {}
         /\ log[i].faults \subseteq LookupSites)
            => (log[i].ok \/ log[i].calls >= 1)

\* C13: in every conversation of the history store an assistant message
\* comes directly after a user message.
C13_AssistantFollowsUser ==
    \A c \in DOMAIN history :
        \A i \in 1..Len(history[c]) :
            history[c][i].role = "assistant"
                => (i > 1 /\ history[c][i - 1].role = "user")

\* The two history appends of a turn.
AppendSites == {"hist_user", "hist_assistant"}

\* C14: a turn that has its response (from a cache tier, without a call to
\* the chat backend, or from the answering call, the second one) and in
\* which only history appends failed returns that response to the handler.
C14_AppendFailureKeepsResponse ==
    \A i \in 1..Len(log) :
        (/\ log[i].what = "turn"
         /\ log[i].faults # {}
         /\ log[i].faults \subseteq AppendSites
         /\ log[i].calls \in {0, 2})
            => log[i].ok

\* The frame sent last on the connection of the turn that has just returned.
LastFrameOf(c) == out[c][Len(out[c])]

\* C15: a step in which a turn returns after the classifier named an intent
\* that is not in the table, or one whose action is not implemented, leaves
\* both cache tiers and the history as they were, made no further call to the
\* chat backend, and ends with an error frame.
C15_UnknownIntentAborts ==
    [][ (/\ Len(log') = Len(log) + 1
         /\ log'[Len(log')].what = "turn"
         /\ log'[Len(log')].intent \in {"odd", "nope"})
            => /\ ~log'[Len(log')].ok
               /\ log'[Len(log')].calls = 1
               /\ redis' = redis
               /\ qdrant' = qdrant
               /\ history' = history
               /\ LET c == log'[Len(log')].conn IN
                  /\ Len(out'[c]) = Len(out[c]) + 1
                  /\ out'[c][Len(out'[c])].type = "error" ]_vars

\* C15 witness: with both tiers connected and the first turn cached, a turn
\* for another prompt has ended on an intent whose action is not implemented.
C15_Witness ==
    /\ JustReturned
    /\ Len(log) >= 2
    /\ LastTurn.intent = "odd"
    /\ acfg.redis_conn /\ acfg.qdrant_client
    /\ \E k \in DOMAIN redis : IsSome(redis[k])
    /\ LastFrameOf(LastTurn.conn).type = "error"

(***************************************************************************)
(* Claims about the size limit and the connection limiter.                 *)
(***************************************************************************)

\* C16: when the handler takes a frame of more than 1,048,576 bytes it sends
\* exactly one frame, the error "Message too large", starts no turn and is
\* closed; a chat frame of exactly 1,048,576 bytes starts a turn; and a
\* closed handler takes no further frame, sends nothing and starts no turn.
C16_OversizeClosesConnection ==
    [][ \A c \in conns :
          /\ (inbox'[c] # inbox[c] /\ Head(inbox[c]).len > 1048576)
                => /\ hpc'[c] = "closed"
                   /\ turn'[c] = turn[c]
                   /\ Len(out'[c]) = Len(out[c]) + 1
                   /\ out'[c][Len(out'[c])].type = "error"
                   /\ out'[c][Len(out'[c])].why = "Message too large"
          /\ (inbox'[c] # inbox[c] /\ Head(inbox[c]).len = 1048576
                /\ Head(inbox[c]).kind = "chat")
                => /\ hpc'[c] = "lock"
                   /\ turn'[c] = turn[c] + 1
          /\ hpc[c] = "closed"
                => /\ hpc'[c] = "closed"
                   /\ inbox'[c] = inbox[c]
                   /\ out'[c] = out[c]
                   /\ turn'[c] = turn[c] ]_vars

\* C16 witness: after a turn started by a message of exactly the limit, an
\* oversize message was answered with the error and the handler is closed.
C16_Witness ==
    \E c \in conns :
        /\ hpc[c] = "closed"
        /\ turn[c] = 1
        /\ out[c] # <<>>
        /\ out[c][Len(out[c])].why = "Message too large"
        /\ \E i \in 1..Len(out[c]) : out[c][i].type = "done"

\* Bounds of the limiter model: sockets the listener takes, and handshakes
\* the spawned tasks get to run.
MaxArrivals == 11
MaxHandshakes == 2

\* An upgrade request without credentials.
PlainRequest == [ts |-> None, xts |-> None, sig |-> None, xsig |-> None]

\* The listener is up with a limiter nobody has drawn on yet.
InitLimiter ==
    /\ AuthSettled
    /\ StreamIdle
    /\ AgentIdle
    /\ PromptSettled
    /\ RemoteIdle
    /\ ToolsIdle

NextLimiter ==
    \/ Accept(MaxArrivals)
    \/ Advance
    \/ \E i \in 1..MaxArrivals :
          /\ minted < MaxHandshakes
          /\ process_connection(i, PlainRequest)

SpecLimiter == InitLimiter /\ [][NextLimiter]_vars

\* C17 as stated: when the 11th socket arrives less than one second after
\* the first, the first ten have a task and the 11th is dropped without one.
C17_Original_EleventhOfASecondDropped ==
    (Len(socks) >= 11 /\ socks[11].at - socks[1].at < 1000)
        => /\ \A i \in 1..10 : socks[i].task
           /\ socks[11].st = "dropped"
           /\ ~socks[11].task

\* C17: when the 11th socket arrives less than 100 ms after the first (before
\* the limiter has regained a cell), the first ten have a task and the 11th
\* is dropped without one; a dropped socket has no task and no conversation
\* and stays as it is; and process_connection only ever runs for a socket
\* that passed the limiter check.
C17_BurstThenDrop ==
    [][ /\ (Len(socks') >= 11 /\ socks'[11].at - socks'[1].at < 100)
            => /\ \A i \in 1..10 : socks'[i].task /\ socks'[i].st # "dropped"
               /\ socks'[11].st = "dropped"
               /\ ~socks'[11].task
        /\ \A i \in 1..Len(socks') :
              socks'[i].st = "dropped" => ~socks'[i].task /\ socks'[i].conv = 0
        /\ \A i \in 1..Len(socks) :
              socks[i].st = "dropped" => socks'[i] = socks[i]
        /\ lastHs' # lastHs => socks[lastHs'.sock].st = "spawned" ]_vars

\* C17 witness: eleven sockets arrived within 50 ms, the 11th was dropped,
\* and a task of an admitted one has run its handshake.
C17_Witness ==
    /\ Len(socks) >= 11
    /\ socks[11].at - socks[1].at < 100
    /\ socks[11].at > socks[1].at
    /\ socks[11].st = "dropped"
    /\ minted >= 1

(***************************************************************************)
(* Part 6.  The prompt configuration over the life of the process: start,  *)
(* edits of the files, reloads on connect and through the HTTP endpoint,   *)
(* and a turn taken read by read.                                          *)
(***************************************************************************)

\* Bound of the wall clock.
MaxWall == 3

\* state.agent.try_lock() succeeds when nobody holds the agent.
try_lock(holder) == holder = 0

\* The process is about to load its prompts; one client has connected and
\* will send a chat message.
InitPrompts ==
    /\ AuthSettled
    /\ conns = {1}
    /\ inbox = [c \in {1} |-> <<UnaryChat(MsgYo)>>]
    /\ hpc = [c \in {1} |-> "setup"]
    /\ dm = [c \in {1} |-> DemuxInit]
    /\ stream = [c \in {1} |-> <<>>]
    /\ out = [c \in {1} |-> <<>>]
    /\ turn = [c \in {1} |-> 0]
    /\ fed = [c \in {1} |-> <<>>]
    /\ agent_lock = 0
    /\ backend = "none"
    /\ acfg = [enable_cache |-> FALSE, redis_conn |-> FALSE, qdrant_client |-> FALSE,
               ttl |-> 0, threshold |-> 100]
    /\ redis = [k \in NormKeys |-> None]
    /\ qdrant = {}
    /\ history = [c \in {1} |-> <<>>]
    /\ pending = [c \in {1} |-> <<>>]
    /\ log = <<>>
    /\ boot = "start"
    /\ wall = 1
    /\ prompts_file \in {None} \cup { Some([mtime |-> 0, doc |-> d]) : d \in PromptDocs }
    /\ schema_ok \in BOOLEAN
    /\ function_schema_file = "ok"
    /\ prompt_config = None
    /\ rag_tool = None
    /\ used = [c \in {1} |-> <<>>]
    /\ last_reload = NoReload
    /\ RemoteIdle
    /\ ToolsIdle

\* initialize_prompt_configuration (initializer "prompt") and
\* initialize_app_config (initializer "app"): fetched is the document the
\* remote service returned, None when remote prompts are disabled, not
\* modified, or the fetch failed and the local file is read instead.
Startup(initializer, fetched) ==
    /\ boot = "start"
    /\ LET r == IF IsSome(fetched) THEN load_prompts_from_str(Unwrap(fetched), wall)
                ELSE IF initializer = "prompt"
                THEN load_prompts_from_file_internal(prompts_file, wall)
                ELSE load_prompts_from_file(prompts_file, wall)
       IN IF r.ok
          THEN /\ boot' = "running"
               /\ prompt_config' = Some(r.config)
               /\ rag_tool' = RagEngine(r.config, "loaded")
          ELSE /\ boot' = "exit"
               /\ UNCHANGED <<prompt_config, rag_tool>>
    /\ UNCHANGED <<wall, prompts_file, schema_ok, function_schema_file, used, last_reload>>
    /\ UNCHANGED <<authVars, streamVars, agentVars, remoteVars, toolVars>>

\* Somebody rewrites the prompts file; its mtime becomes the current time.
EditPrompts(file) ==
    /\ prompts_file' = file
    /\ prompts_file' # prompts_file
    /\ UNCHANGED <<boot, wall, schema_ok, function_schema_file, prompt_config, rag_tool,
                   used, last_reload>>
    /\ UNCHANGED <<authVars, streamVars, agentVars, remoteVars, toolVars>>

\* The schema files become unreadable, or readable again.
EditSchema ==
    /\ schema_ok' = ~schema_ok
    /\ UNCHANGED <<boot, wall, prompts_file, function_schema_file, prompt_config,
                   rag_tool, used, last_reload>>
    /\ UNCHANGED <<authVars, streamVars, agentVars, remoteVars, toolVars>>

\* The function schema file is replaced, removed or damaged.
EditFunctionSchema(v) ==
    /\ function_schema_file # v
    /\ function_schema_file' = v
    /\ UNCHANGED <<boot, wall, prompts_file, schema_ok, prompt_config, rag_tool, used,
                   last_reload>>
    /\ UNCHANGED <<authVars, streamVars, agentVars, remoteVars, toolVars>>

WallTick ==
    /\ wall < MaxWall
    /\ wall' = wall + 1
    /\ UNCHANGED <<boot, prompts_file, schema_ok, function_schema_file, prompt_config,
                   rag_tool, used,
                   last_reload>>
    /\ UNCHANGED <<authVars, streamVars, agentVars, remoteVars, toolVars>>

\* The holder of the agent lock while the reload endpoint has it.
ApiHolder == 0 - 1

\* What can go wrong with one fetch of the remote configuration.
FetchFaults == {"none", "token", "status", "body", "field", "no_etag_header"}

\* A client that drops its stored tag when the service answers 304.
fetch_config_forgets_tag(tag, rc, fault) ==
    IF fault = "token" THEN [res |-> "err", value |-> None, etag |-> tag, http |-> 0]
    ELSE IF fault = "status"
    THEN [res |-> "err", value |-> None, etag |-> tag, http |-> 500]
    ELSE IF tag = Some(rc.etag)
    THEN [res |-> "none", value |-> None, etag |-> None, http |-> 304]
    ELSE LET stored == IF fault = "no_etag_header" THEN tag ELSE Some(rc.etag)
         IN IF fault \in {"body", "field"}
            THEN [res |-> "err", value |-> None, etag |-> stored, http |-> 200]
            ELSE [res |-> "some", value |-> Some(rc.doc), etag |-> stored, http |-> 200]

\* RemoteConfigClient::fetch_config against the service rc with the stored
\* tag: Err, Ok(None) on 304, or Ok(Some(value)); the tag it leaves; and
\* the status the service answered (0 when no request was sent).  The
\* service answers 304 when the request carries its current tag.
fetch_config(tag, rc, fault) ==
    IF fault = "token" THEN [res |-> "err", value |-> None, etag |-> tag, http |-> 0]
    ELSE IF fault = "status"
    THEN [res |-> "err", value |-> None, etag |-> tag, http |-> 500]
    ELSE IF tag = Some(rc.etag)
    THEN [res |-> "none", value |-> None, etag |-> tag, http |-> 304]
    ELSE LET stored == IF fault = "no_etag_header" THEN tag ELSE Some(rc.etag)
         IN IF fault \in {"body", "field"}
            THEN [res |-> "err", value |-> None, etag |-> stored, http |-> 200]
            ELSE [res |-> "some", value |-> Some(rc.doc), etag |-> stored, http |-> 200]

\* AIAgent::force_refresh_remote_prompts: the conditional fetch, and on a
\* new document its load and the swap of the snapshot and the RagEngine.
force_refresh_remote_prompts(tag, rc, fault, current, rag, t) ==
    LET f == fetch_config(tag, rc, fault)
        same == [prompt_config |-> current, rag_tool |-> rag, etag |-> f.etag,
                 http |-> f.http]
    IN IF f.res = "err" THEN same @@ [ret |-> "err"]
       ELSE IF f.res = "none" THEN same @@ [ret |-> "false"]
       ELSE LET r == load_prompts_from_str(Unwrap(f.value), t)
            IN IF r.ok
               THEN [ret |-> "true", prompt_config |-> Some(r.config),
                     rag_tool |-> RagEngine(r.config, Unwrap(rag).function_schema),
                     etag |-> f.etag, http |-> f.http]
               ELSE same @@ [ret |-> "err"]

\* The line of the report for one reload.
Detail(where, ret) ==
    IF ret = "true" THEN <<where, "reloaded">>
    ELSE IF ret = "false" THEN <<where, "unchanged">>
    ELSE <<where, "error">>

\* The answer of the endpoint: 200 when no reload failed, 400 otherwise.
ReloadResponse(ok, details, remote_status) ==
    [status |-> IF ok THEN 200 ELSE 400, success |-> ok,
     message |-> IF ok THEN "Reload complete" ELSE "Reload errors",
     details |-> details, remote_status |-> remote_status]

\* GET /api/reload-prompts?source=..: state.agent.try_lock(), and 503
\* "Agent busy" at once when somebody holds the agent.
reload_prompts_try_lock(source) ==
    /\ boot = "running"
    /\ api_pc = "idle"
    /\ IF try_lock(agent_lock)
       THEN /\ agent_lock' = ApiHolder
            /\ api_pc' = source
            /\ UNCHANGED <<api_response, last_reload>>
       ELSE /\ api_response' = [status |-> 503, success |-> FALSE,
                                message |-> "Agent busy", details |-> <<>>,
                                remote_status |-> 0]
            /\ last_reload' = [NoReload EXCEPT !.ret = "busy"]
            /\ UNCHANGED <<agent_lock, api_pc>>
    /\ UNCHANGED <<boot, wall, prompts_file, schema_ok, function_schema_file,
                   prompt_config, rag_tool, used>>
    /\ UNCHANGED <<enable_remote_prompts, etag, remote>>
    /\ UNCHANGED toolVars
    /\ UNCHANGED <<conns, inbox, hpc, dm, stream, out, turn, fed, backend>>
    /\ UNCHANGED <<authVars, agentVars>>

\* reload_prompts_handler under the guard: the local reload, the remote
\* refresh, or both in that order, then the report; the guard is dropped
\* when the handler returns.
reload_prompts_handler(fault) ==
    /\ api_pc # "idle"
    /\ agent_lock = ApiHolder
    /\ LET do_local == api_pc \in {"local", "both"}
           do_remote == api_pc \in {"remote", "both"} /\ enable_remote_prompts
           l == IF do_local
                THEN reload_prompts_if_changed(prompts_file, schema_ok,
                                               function_schema_file, prompt_config,
                                               rag_tool, wall)
                ELSE [ret |-> "skipped", prompt_config |-> prompt_config,
                      rag_tool |-> rag_tool]
           r == IF do_remote
                THEN force_refresh_remote_prompts(etag, remote, fault, l.prompt_config,
                                                  l.rag_tool, wall)
                ELSE [ret |-> "skipped", prompt_config |-> l.prompt_config,
                      rag_tool |-> l.rag_tool, etag |-> etag, http |-> 0]
           details == (IF do_local THEN <<Detail("Local", l.ret)>> ELSE <<>>)
                      \o (IF api_pc = "local" THEN <<>>
                          ELSE IF do_remote THEN <<Detail("Remote", r.ret)>>
                          ELSE <<(<<"Remote", "disabled">>)>>)
       IN /\ prompt_config' = r.prompt_config
          /\ rag_tool' = r.rag_tool
          /\ etag' = r.etag
          /\ last_reload' = IF do_local
                            THEN ReloadEntry(prompts_file, schema_ok, function_schema_file,
                                             prompt_config, rag_tool, l)
                            ELSE last_reload
          /\ api_response' = ReloadResponse(l.ret # "err" /\ r.ret # "err", details,
                                           r.http)
    /\ agent_lock' = 0
    /\ api_pc' = "idle"
    /\ UNCHANGED <<boot, wall, prompts_file, schema_ok, function_schema_file, used>>
    /\ UNCHANGED <<enable_remote_prompts, remote>>
    /\ UNCHANGED toolVars
    /\ UNCHANGED <<conns, inbox, hpc, dm, stream, out, turn, fed, backend>>
    /\ UNCHANGED <<authVars, agentVars>>

\* execute_llm_interaction renders the intent prompt from self.prompt_config
\* and awaits the classification.
IntentPromptStep(c) ==
    /\ c \in conns
    /\ hpc[c] = "agent"
    /\ agent_lock = c
    /\ used' = [used EXCEPT ![c] = <<Unwrap(prompt_config)>>]
    /\ hpc' = [hpc EXCEPT ![c] = "classified"]
    /\ UNCHANGED <<conns, inbox, dm, stream, out, turn, fed, agent_lock, backend>>
    /\ UNCHANGED <<boot, wall, prompts_file, schema_ok, function_schema_file,
                   prompt_config, rag_tool,
                   last_reload>>
    /\ UNCHANGED <<authVars, agentVars, remoteVars, toolVars>>

\* execute_llm_interaction looks the intent up in self.prompt_config.intents
\* and dispatches on its action.
IntentLookupStep(c, action) ==
    /\ c \in conns
    /\ hpc[c] = "classified"
    /\ agent_lock = c
    /\ used' = [used EXCEPT ![c] = Append(@, Unwrap(prompt_config))]
    /\ hpc' = [hpc EXCEPT ![c] = IF action = "call_rag_tool" THEN "rag" ELSE "answered"]
    /\ UNCHANGED <<conns, inbox, dm, stream, out, turn, fed, agent_lock, backend>>
    /\ UNCHANGED <<boot, wall, prompts_file, schema_ok, function_schema_file,
                   prompt_config, rag_tool,
                   last_reload>>
    /\ UNCHANGED <<authVars, agentVars, remoteVars, toolVars>>

\* self.rag_tool.process renders the RAG prompts from the snapshot the
\* engine was built with.
RagStep(c) ==
    /\ c \in conns
    /\ hpc[c] = "rag"
    /\ agent_lock = c
    /\ used' = [used EXCEPT ![c] = Append(@, Unwrap(rag_tool).config)]
    /\ hpc' = [hpc EXCEPT ![c] = "answered"]
    /\ UNCHANGED <<conns, inbox, dm, stream, out, turn, fed, agent_lock, backend>>
    /\ UNCHANGED <<boot, wall, prompts_file, schema_ok, function_schema_file,
                   prompt_config, rag_tool,
                   last_reload>>
    /\ UNCHANGED <<authVars, agentVars, remoteVars, toolVars>>

\* process_message appends the exchange to the history and returns; the
\* handler drops the guard and sends the response frame.
FinishTurn(c) ==
    /\ c \in conns
    /\ hpc[c] = "answered"
    /\ agent_lock = c
    /\ history' = add_message(add_message(history, c, "user", pending[c], FALSE),
                              c, "assistant", <<"r", "1">>, FALSE)
    /\ out' = [out EXCEPT ![c] = @ \o Tagged(<<Frame("response", <<"r", "1">>)>>, turn[c])]
    /\ agent_lock' = 0
    /\ hpc' = [hpc EXCEPT ![c] = "recv"]
    /\ pending' = [pending EXCEPT ![c] = <<>>]
    /\ UNCHANGED <<conns, inbox, dm, stream, turn, fed, backend>>
    /\ UNCHANGED <<acfg, redis, qdrant, log>>
    /\ UNCHANGED promptVars
    /\ UNCHANGED <<authVars, remoteVars, toolVars>>

NextPrompts ==
    \/ \E initializer \in {"prompt", "app"} :
          \E fetched \in {None} \cup { Some(d) : d \in PromptDocs } :
             Startup(initializer, fetched)
    \/ \E d \in EditDocs : EditPrompts(Some([mtime |-> wall, doc |-> d]))
    \/ EditSchema
    \/ \E v \in {"ok", "missing", "garbage"} : EditFunctionSchema(v)
    \/ WallTick
    \/ reload_prompts_try_lock("local")
    \/ reload_prompts_handler("none")
    \/ \E c \in conns : Setup(c)
    \/ \E c \in conns : RecvUnary(c)
    \/ \E c \in conns : AcquireLock(c)
    \/ \E c \in conns : IntentPromptStep(c)
    \/ \E c \in conns : \E action \in {"call_rag_tool", "general_llm_call"} :
          IntentLookupStep(c, action)
    \/ \E c \in conns : RagStep(c)
    \/ \E c \in conns : FinishTurn(c)

SpecPrompts == InitPrompts /\ [][NextPrompts]_vars

(***************************************************************************)
(* Claims about the prompt configuration.                                  *)
(***************************************************************************)

\* C18: the active snapshot of the agent, and the one its RagEngine holds,
\* has every one of the five required template keys, whichever way it was
\* loaded (at start from the local file or from the remote service, or by a
\* reload).
C18_ActiveSnapshotHasRequiredKeys ==
    /\ IsSome(prompt_config) => RequiredKeys \subseteq Unwrap(prompt_config).keys
    /\ IsSome(rag_tool) => RequiredKeys \subseteq Unwrap(rag_tool).config.keys

\* C19: every snapshot a turn has read, for the intent prompt, the intent
\* lookup and the RAG prompts, is the one it read first.
C19_TurnReadsOneSnapshot ==
    \A c \in conns :
        \A i \in 1..Len(used[c]) : used[c][i] = used[c][1]

\* C19 witness: a turn that went through the RAG engine has made its three
\* reads while the file on disk was newer than the snapshot it read, and a
\* reload asked for during the turn was turned away.
C19_Witness ==
    \E c \in conns :
        /\ Len(used[c]) = 3
        /\ hpc[c] = "answered"
        /\ last_reload.ret = "busy"
        /\ IsSome(prompts_file)
        /\ Unwrap(prompts_file).mtime > used[c][1].last_loaded
        /\ Unwrap(prompts_file).doc.rev # used[c][1].rev
        /\ validate(Unwrap(prompts_file).doc)
        /\ schema_ok

\* C20: a reload that swapped put in a snapshot with a strictly greater
\* last_loaded; a reload returns true exactly when it swapped, and it swaps
\* exactly when the file's mtime is greater than the current last_loaded
\* and the file parses and has the required keys; every other reload that
\* ran returns false.
C20_ReloadSwapsIffNewerAndValid ==
    last_reload.ret \in {"true", "false", "err"}
        => /\ last_reload.swapped => last_reload.new > last_reload.old
           /\ last_reload.swapped <=> last_reload.ret = "true"
           /\ last_reload.ret = "true" <=> (last_reload.newer /\ last_reload.good)
           /\ ~(last_reload.newer /\ last_reload.good) => last_reload.ret = "false"

\* C21 as stated: a reload that meets a failure at any step, the read of
\* the function schema included, returns an error and leaves the agent's
\* snapshot and its RagEngine as they were.
C21_Original_AnyFailedStepIsAnError ==
    last_reload.step # "none"
        => /\ last_reload.ret = "err"
           /\ ~last_reload.swapped
           /\ ~last_reload.rag_swapped

\* C21: a reload that returned an error left the agent's snapshot and its
\* RagEngine as they were; a failure of the stat, the parse, the validation,
\* the schema read or the function-schema parse is returned as an error; and
\* a function schema that cannot be read is no failure: the reload returns
\* true and builds the RagEngine with an empty function schema.
C21_FailedReloadChangesNothing ==
    /\ last_reload.ret = "err" => ~last_reload.swapped /\ ~last_reload.rag_swapped
    /\ last_reload.step \in {"stat", "parse", "validation", "schema", "function_schema_parse"}
          => last_reload.ret = "err"
    /\ last_reload.step = "function_schema_read"
          => /\ last_reload.ret = "true"
             /\ last_reload.swapped
             /\ last_reload.rag_swapped
    /\ last_reload.ret = "false" => ~last_reload.swapped /\ ~last_reload.rag_swapped

\* C21 witness: a reload found a newer, valid prompts file, failed on the
\* schema file, and the agent still holds the snapshot it had.
C21_Witness ==
    /\ last_reload.ret = "err"
    /\ last_reload.step = "schema"
    /\ last_reload.newer
    /\ IsSome(prompt_config)
    /\ Unwrap(prompt_config).last_loaded = last_reload.old
    /\ Unwrap(rag_tool).config = Unwrap(prompt_config)

\* C22: when the process gives up at start, the local prompts file is
\* missing or does not load, whatever the remote service answered.
C22_StartupFailsOnlyOnLocalFile ==
    [][ (boot = "start" /\ boot' = "exit")
            => ~load_prompts_from_file_internal(prompts_file, wall).ok ]_vars

(***************************************************************************)
(* Part 7.  The reload endpoint against the remote configuration service.  *)
(***************************************************************************)

\* Bound of the revisions the remote service publishes.
MaxRemoteRev == 2

\* The documents the remote service serves.
RemoteDocs == {DocFull(2), DocGarbage, DocMissing("fallback_topic_resolver")}

\* The agent is running on its local prompts; nobody has fetched from the
\* remote service yet.
InitRemote ==
    /\ AuthSettled
    /\ StreamIdle
    /\ AgentIdle
    /\ PromptSettled
    /\ enable_remote_prompts \in BOOLEAN
    /\ etag = None
    /\ remote \in { [etag |-> 1, doc |-> d] : d \in RemoteDocs }
    /\ api_pc = "idle"
    /\ api_response = NoResponse
    /\ ToolsIdle

\* The remote service publishes a new revision of the prompts.
RemotePublish(d) ==
    /\ remote.etag < MaxRemoteRev
    /\ remote' = [etag |-> remote.etag + 1, doc |-> d]
    /\ UNCHANGED <<enable_remote_prompts, etag, api_pc, api_response>>
    /\ UNCHANGED toolVars
    /\ UNCHANGED <<authVars, streamVars, agentVars, promptVars>>

NextRemote ==
    \/ \E source \in {"local", "remote", "both"} : reload_prompts_try_lock(source)
    \/ \E fault \in FetchFaults : reload_prompts_handler(fault)
    \/ \E d \in RemoteDocs : RemotePublish(d)
    \/ EditPrompts(Some([mtime |-> wall, doc |-> DocFull(2)]))
    \/ WallTick

SpecRemote == InitRemote /\ [][NextRemote]_vars

\* C23: when the remote service answers 304 to the fetch of a request with
\* source=remote, the endpoint answers 200 with success true and the one
\* detail "Remote unchanged", and the agent's snapshot, its RagEngine and
\* the stored ETag are what they were.
C23_NotModifiedIsANoOp ==
    [][ (api_pc = "remote" /\ api_pc' = "idle" /\ api_response'.remote_status = 304)
            => /\ api_response'.status = 200
               /\ api_response'.success
               /\ api_response'.details = <<(<<"Remote", "unchanged">>)>>
               /\ prompt_config' = prompt_config
               /\ rag_tool' = rag_tool
               /\ etag' = etag ]_vars

\* C23 witness: after a remote reload had installed revision 1, a request
\* with source=remote was answered 304 and reported "Remote unchanged".
C23_Witness ==
    /\ api_response.remote_status = 304
    /\ api_response.details = <<(<<"Remote", "unchanged">>)>>
    /\ etag = Some(remote.etag)
    /\ Unwrap(prompt_config).rev = 2
    /\ api_pc = "idle"

\* C24: a reload request that arrives while a chat turn holds the agent is
\* answered 503 at once, with the snapshot, the RagEngine and the lock as
\* they were; and no chat turn is ever waiting for the agent while the
\* endpoint holds it for a reload.
C24_ReloadNeverDelaysChat ==
    [][ /\ (api_pc = "idle" /\ agent_lock \in conns /\ api_response' # api_response)
            => /\ api_response'.status = 503
               /\ api_pc' = "idle"
               /\ agent_lock' = agent_lock
               /\ prompt_config' = prompt_config
               /\ rag_tool' = rag_tool
        /\ \A c \in conns' : hpc'[c] = "lock" => agent_lock' # ApiHolder ]_vars

\* The first half alone: a request arriving during a chat turn is refused
\* with 503 and changes nothing.
BusyReloadIsRefused ==
    [][ (api_pc = "idle" /\ agent_lock \in conns /\ api_response' # api_response)
            => /\ api_response'.status = 503
               /\ api_pc' = "idle"
               /\ agent_lock' = agent_lock
               /\ prompt_config' = prompt_config
               /\ rag_tool' = rag_tool ]_vars

(***************************************************************************)
(* Part 8.  The history store of src/history: the keyed-list backing       *)
(* (RedisHistoryStore) and the vector backing (QdrantHistoryStore).        *)
(***************************************************************************)

\* Bounds: conversation ids, the values of the wall clock, the messages
\* appended in one behaviour, and the largest limit asked for.
HistoryIds == {1, 2}
MaxEpoch == 2
MaxAppended == 3
MaxLimit == 3

\* The messages of a turn: the user's and the assistant's.
TurnMessages == { [role |-> "user", content |-> "a"],
                  [role |-> "assistant", content |-> "b"] }

Min(a, b) == IF a <= b THEN a ELSE b
Max(a, b) == IF a >= b THEN a ELSE b

\* The messages appended so far, over all conversations.
TotalAppended(app) ==
    LET RECURSIVE Sum(_)
        Sum(S) == IF S = {} THEN 0
                  ELSE LET x == CHOOSE y \in S : TRUE IN Len(app[x]) + Sum(S \ {x})
    IN Sum(DOMAIN app)

\* ChatMessage / StoredMessage.
ChatMessage(role, content, timestamp) ==
    [role |-> role, content |-> content, timestamp |-> timestamp]

\* Redis LPUSH key value: the value becomes the head of the list.
lpush(list, value) == <<value>> \o list

\* Redis LRANGE key start stop: zero-based inclusive offsets, a negative
\* offset counts from the end of the list (-1 is the last element), and
\* offsets out of range are clipped.
lrange(list, start, stop) ==
    LET n == Len(list)
        first == IF start < 0 THEN Max(n + start, 0) ELSE start
        last == IF stop < 0 THEN n + stop ELSE Min(stop, n - 1)
    IN IF first > last \/ first >= n THEN <<>>
       ELSE SubSeq(list, first + 1, last + 1)

\* Vec::reverse.
reverse(v) == [i \in 1..Len(v) |-> v[Len(v) + 1 - i]]

\* RedisHistoryStore::add_message: the message is stamped with the wall
\* clock and pushed on the head of the conversation's list.
redis_add_message(lists, conversation_id, role, content, now_ts) ==
    [lists EXCEPT ![conversation_id] = lpush(@, ChatMessage(role, content, now_ts))]

\* RedisHistoryStore::get_conversation: LRANGE 0 limit-1, then reverse.
redis_get_conversation(lists, conversation_id, limit) ==
    reverse(lrange(lists[conversation_id], 0, limit - 1))

\* QdrantHistoryStore::add_message: one new point with a fresh id.
qdrant_add_message(points, conversation_id, role, content, now_ts) ==
    points \cup { [id |-> Cardinality(points) + 1, conversation_id |-> conversation_id,
                   message |-> ChatMessage(role, content, now_ts)] }

\* The orders Vec::sort_by_key(|m| m.timestamp) can leave the values of a
\* HashMap in: every arrangement with non-decreasing timestamps.
sort_by_key_timestamp(S) ==
    { v \in [1..Cardinality(S) -> S] :
        /\ \A i, j \in DOMAIN v : i # j => v[i] # v[j]
        /\ \A i, j \in DOMAIN v : i < j => v[i].message.timestamp <= v[j].message.timestamp }

\* final_messages.split_off(len - limit) when len > limit.
keep_last(v, limit) ==
    IF Len(v) > limit THEN SubSeq(v, Len(v) - limit + 1, Len(v)) ELSE v

\* QdrantHistoryStore::get_conversation: the outcomes it can have.  The
\* recency scroll takes the limit/2 (at least one) newest points of the
\* conversation; the semantic search takes limit - retrieved further points,
\* whichever are nearest; the union is sorted by timestamp and cut to the
\* last limit.  `limit - combined_messages.len()` is a usize subtraction:
\* with limit = 0 and one point retrieved it panics when overflow checks
\* are on and wraps to a huge limit (every remaining point) when they are off.
qdrant_get_conversation(points, conversation_id, limit, overflow_checks) ==
    LET pts == { p \in points : p.conversation_id = conversation_id }
        recency_limit == Max(limit \div 2, 1)
        Recency == { R \in SUBSET pts :
                       /\ Cardinality(R) = Min(recency_limit, Cardinality(pts))
                       /\ \A r \in R : \A p \in pts \ R :
                              r.message.timestamp >= p.message.timestamp }
        Outcomes(R) ==
            LET wraps == limit < Cardinality(R)
                rest == pts \ R
                semantic_limit == IF wraps THEN Cardinality(rest) ELSE limit - Cardinality(R)
                Semantic == IF semantic_limit > 0 /\ R # {}
                            THEN { S \in SUBSET rest :
                                     Cardinality(S) = Min(semantic_limit, Cardinality(rest)) }
                            ELSE { {} }
            IN IF wraps /\ overflow_checks
               THEN { [ret |-> "panic", messages |-> <<>>] }
               ELSE { [ret |-> "ok",
                       messages |-> [i \in DOMAIN keep_last(v, limit) |->
                                        keep_last(v, limit)[i].message]] :
                      v \in UNION { sort_by_key_timestamp(R \cup S) : S \in Semantic } }
    IN UNION { Outcomes(R) : R \in Recency }

\* One backing is configured; nothing is stored yet.
InitHistory ==
    /\ AuthSettled
    /\ StreamIdle
    /\ AgentIdle
    /\ PromptSettled
    /\ RemoteIdle
    /\ history_type \in {"redis", "qdrant"}
    /\ utc_now = 1
    /\ history_list = [id \in HistoryIds |-> <<>>]
    /\ history_points = {}
    /\ appended = [id \in HistoryIds |-> <<>>]
    /\ conversation = NoConversation
    /\ rag_query = NoQuery
    /\ rag_answer = NoAnswer
    /\ LlmIdle

otherThanStore == <<authVars, streamVars, agentVars, promptVars, remoteVars, ragVars, llmVars>>

\* The system clock moves: forward as time passes, or to any other value
\* when it is set or stepped by time synchronisation.
ClockSet(t) ==
    /\ t # utc_now
    /\ utc_now' = t
    /\ UNCHANGED <<history_type, history_list, history_points, appended, conversation>>
    /\ UNCHANGED otherThanStore

\* HistoryStore::add_message on the configured backing; a failed call
\* (connection, embedding, upsert) stores nothing.
add_message_call(conversation_id, role, content, failed) ==
    /\ TotalAppended(appended) < MaxAppended
    /\ IF failed
       THEN UNCHANGED <<history_list, history_points, appended>>
       ELSE /\ appended' = [appended EXCEPT ![conversation_id] =
                               Append(@, ChatMessage(role, content, utc_now))]
            /\ IF history_type = "redis"
               THEN /\ history_list' = redis_add_message(history_list, conversation_id,
                                                         role, content, utc_now)
                    /\ UNCHANGED history_points
               ELSE /\ history_points' = qdrant_add_message(history_points, conversation_id,
                                                            role, content, utc_now)
                    /\ UNCHANGED history_list
    /\ UNCHANGED <<history_type, utc_now, conversation>>
    /\ UNCHANGED otherThanStore

\* HistoryStore::get_conversation on the configured backing.
get_conversation_call(conversation_id, limit, overflow_checks) ==
    /\ \E o \in IF history_type = "redis"
                THEN { [ret |-> "ok",
                        messages |-> redis_get_conversation(history_list,
                                                            conversation_id, limit)] }
                ELSE qdrant_get_conversation(history_points, conversation_id, limit,
                                             overflow_checks) :
          conversation' = [backing |-> history_type, id |-> conversation_id,
                           limit |-> limit, ret |-> o.ret, messages |-> o.messages,
                           appended |-> appended[conversation_id]]
    /\ UNCHANGED <<history_type, utc_now, history_list, history_points, appended>>
    /\ UNCHANGED otherThanStore

NextHistory ==
    \/ \E t \in 1..MaxEpoch : ClockSet(t)
    \/ \E id \in HistoryIds, m \in TurnMessages, failed \in BOOLEAN :
          add_message_call(id, m.role, m.content, failed)
    \/ \E id \in HistoryIds, limit \in 0..MaxLimit, overflow_checks \in BOOLEAN :
          get_conversation_call(id, limit, overflow_checks)

SpecHistory == InitHistory /\ [][NextHistory]_vars

\* The timestamps of a sequence of messages never decrease.
NonDecreasing(messages) ==
    \A i, j \in DOMAIN messages : i < j => messages[i].timestamp <= messages[j].timestamp

\* C25: whatever was appended, the timestamps of the messages that
\* get_conversation returns never decrease, on either backing.
C25_TimestampsNonDecreasing ==
    conversation.ret = "ok" => NonDecreasing(conversation.messages)

\* On the vector backing the returned timestamps never decrease.
VectorBackingTimestampsSorted ==
    (conversation.ret = "ok" /\ conversation.backing = "qdrant")
        => NonDecreasing(conversation.messages)

\* The min(n, m) most recently appended messages, oldest first.
MostRecent(appends, n) ==
    SubSeq(appends, Len(appends) - Min(n, Len(appends)) + 1, Len(appends))

\* C26: get_conversation(id, n) on the keyed-list backing returns the
\* min(n, m) most recently appended messages of the conversation, oldest
\* first, and on either backing it returns at most n messages.
C26_BoundedRecentRead ==
    conversation.ret = "ok"
        => /\ Len(conversation.messages) <= conversation.limit
           /\ conversation.backing = "redis"
                  => conversation.messages
                         = MostRecent(conversation.appended, conversation.limit)

\* For every limit of at least one the keyed-list backing returns the
\* min(n, m) most recent messages, and the vector backing never returns
\* more than the limit.
BoundedRecentReadForPositiveLimit ==
    (conversation.ret = "ok" /\ (conversation.limit >= 1 \/ conversation.backing = "qdrant"))
        => /\ Len(conversation.messages) <= conversation.limit
           /\ conversation.backing = "redis"
                  => conversation.messages
                         = MostRecent(conversation.appended, conversation.limit)

(***************************************************************************)
(* Part 9.  RagEngine::query_and_answer of src/rag/rag.rs: topic           *)
(* inference, the fallback resolver, the count shortcut and the answer.    *)
(***************************************************************************)

\* The names of the index schemas the engine was built with.
SchemaSkills == <<"s", "k", "i", "l", "l", "s">>
SchemaExperience == <<"e", "x", "p", "e", "r", "i", "e", "n", "c", "e">>
index_schemas == {SchemaSkills, SchemaExperience}

\* The questions asked.
QuestionHowMany == <<"H", "o", "w", " ", "m", "a", "n", "y", " ", "s", "k", "i", "l", "l", "s", "?">>
QuestionTotals == <<"T", "O", "T", "A", "L", "S", " ", "p", "l", "e", "a", "s", "e">>
QuestionHowMuch == <<"h", "o", "w", " ", "m", "u", "c", "h", " ", "e", "x", "p", "e", "r", "i", "e", "n", "c", "e">>
QuestionPlain == <<"m", "y", " ", "s", "k", "i", "l", "l", "s">>
Questions == {QuestionHowMany, QuestionTotals, QuestionHowMuch, QuestionPlain}

\* What the chat model answers to a topic prompt.
AnswerNone == <<"n", "o", "n", "e">>
AnswerQuoted == <<" ", "\"", "S", "k", "i", "l", "l", "s", "\"", "\n">>
AnswerInnerSpace == <<"\"", "s", "k", "i", "l", "l", "s", " ", "\"">>
AnswerUnknown == <<"c", "a", "t", "s">>
TopicAnswers == {SchemaSkills, SchemaExperience, AnswerQuoted, AnswerInnerSpace,
                 AnswerNone, AnswerUnknown, <<>>}

\* The text of the final answer.
FinalAnswer == <<"o", "k">>

\* The document counts the vector store reports.
Counts == {0, 12}

\* The services as one query finds them: the chat model's answers to the
\* topic prompt and to the fallback prompt (None: the call fails), the
\* count of the vector store (None: the call fails), and whether the
\* embedding, the search and the final completion succeed.
RagEnvs ==
    [topic : {None} \cup {Some(a) : a \in TopicAnswers},
     fallback : {None} \cup {Some(a) : a \in {SchemaExperience, AnswerNone, AnswerUnknown}},
     count : {None} \cup {Some(n) : n \in Counts},
     embed_ok : BOOLEAN, search_ok : BOOLEAN, final_ok : BOOLEAN]

\* str::trim_matches('"'): every leading and trailing double quote.
RECURSIVE TrimQuotesStart(_)
TrimQuotesStart(s) == IF s # <<>> /\ Head(s) = "\"" THEN TrimQuotesStart(Tail(s)) ELSE s
RECURSIVE TrimQuotesEnd(_)
TrimQuotesEnd(s) ==
    IF s # <<>> /\ s[Len(s)] = "\"" THEN TrimQuotesEnd(SubSeq(s, 1, Len(s) - 1)) ELSE s
trim_matches_quote(s) == TrimQuotesEnd(TrimQuotesStart(s))

\* response.trim().trim_matches('"').to_lowercase()
normalize_topic(response) == ToLowercase(trim_matches_quote(Trim(response)))

\* The topic is empty, the literal none, or no schema's name.
unresolved(topic) ==
    topic = <<>> \/ topic = AnswerNone \/ topic \notin index_schemas

\* u64::to_string for the counts of the model.
DigitOf(d) == <<"0", "1", "2", "3", "4", "5", "6", "7", "8", "9">>[d + 1]
RECURSIVE to_string(_)
to_string(n) == IF n < 10 THEN <<DigitOf(n)>> ELSE to_string(n \div 10) \o <<DigitOf(n % 10)>>

\* A shortcut test that does not know "how much".
is_count_question_without_how_much(lower_q) ==
    \/ Contains(lower_q, <<"c", "o", "u", "n", "t">>)
    \/ Contains(lower_q, <<"t", "o", "t", "a", "l">>)
    \/ Contains(lower_q, <<"h", "o", "w", " ", "m", "a", "n", "y">>)

\* The test of the count shortcut on the lowercased question.
is_count_question(lower_q) ==
    \/ Contains(lower_q, <<"c", "o", "u", "n", "t">>)
    \/ Contains(lower_q, <<"t", "o", "t", "a", "l">>)
    \/ Contains(lower_q, <<"h", "o", "w", " ", "m", "a", "n", "y">>)
    \/ Contains(lower_q, <<"h", "o", "w", " ", "m", "u", "c", "h">>)

RagErr(error, calls, topic) ==
    [ret |-> "err", value |-> error, calls |-> calls, final_topic |-> topic]
RagOk(value, calls, topic) ==
    [ret |-> "ok", value |-> value, calls |-> calls, final_topic |-> topic]

\* Topic resolution: [ok, topic | error, calls].  The first chat call
\* infers the topic; when its normalized answer is unresolved the fallback
\* prompt is built (an error when the template is not in the snapshot) and
\* a second chat call is made.
resolve_topic(config, env) ==
    IF "rag_topic_inference" \notin config.keys
    THEN [ok |-> FALSE, error |-> "template_not_found", calls |-> <<>>]
    ELSE IF env.topic = None
    THEN [ok |-> FALSE, error |-> "chat_failed", calls |-> <<"chat_topic">>]
    ELSE LET inferred_topic == normalize_topic(Unwrap(env.topic)) IN
         IF ~unresolved(inferred_topic)
         THEN [ok |-> TRUE, topic |-> inferred_topic, calls |-> <<"chat_topic">>]
         ELSE IF "fallback_topic_resolver" \notin config.keys
         THEN [ok |-> FALSE, error |-> "template_not_found", calls |-> <<"chat_topic">>]
         ELSE IF env.fallback = None
         THEN [ok |-> FALSE, error |-> "chat_failed",
               calls |-> <<"chat_topic", "chat_fallback">>]
         ELSE LET fallback_topic == normalize_topic(Unwrap(env.fallback)) IN
              IF unresolved(fallback_topic)
              THEN [ok |-> FALSE, error |-> "could_not_determine_category",
                    calls |-> <<"chat_topic", "chat_fallback">>]
              ELSE [ok |-> TRUE, topic |-> fallback_topic,
                    calls |-> <<"chat_topic", "chat_fallback">>]

\* RagEngine::query_and_answer: the result and the calls it made on the
\* chat model, the embedding client and the vector store, in order.  The
\* choice of fields and the ordering of the hits make no calls and are
\* not modelled.
query_and_answer(config, user_question, env) ==
    LET t == resolve_topic(config, env) IN
    IF ~t.ok THEN RagErr(t.error, t.calls, None)
    ELSE LET final_topic == t.topic
             lower_q == ToLowercase(user_question)
         IN IF is_count_question(lower_q) /\ final_topic # <<>>
            THEN IF env.count = None
                 THEN RagErr("count_failed", t.calls \o <<"count_documents">>,
                             Some(final_topic))
                 ELSE RagOk(to_string(Unwrap(env.count)),
                            t.calls \o <<"count_documents">>, Some(final_topic))
            ELSE IF ~env.embed_ok
            THEN RagErr("embedding_failed", t.calls \o <<"embed">>, Some(final_topic))
            ELSE IF ~env.search_ok
            THEN RagErr("search_failed", t.calls \o <<"embed", "search_hybrid">>,
                        Some(final_topic))
            ELSE IF "rag_final_answer" \notin config.keys
            THEN RagErr("template_not_found", t.calls \o <<"embed", "search_hybrid">>,
                        Some(final_topic))
            ELSE IF ~env.final_ok
            THEN RagErr("final_completion_failed",
                        t.calls \o <<"embed", "search_hybrid", "chat_final">>,
                        Some(final_topic))
            ELSE RagOk(FinalAnswer, t.calls \o <<"embed", "search_hybrid", "chat_final">>,
                       Some(final_topic))

\* The agent runs on a prompts file that load_prompts_from_str accepted.
InitRag ==
    /\ AuthSettled
    /\ StreamIdle
    /\ AgentIdle
    /\ RemoteIdle
    /\ boot = "running"
    /\ wall = 2
    /\ \E d \in {DocFull(1), DocMissing("fallback_topic_resolver")} :
          /\ load_prompts_from_str(d, 1).ok
          /\ prompts_file = Some([mtime |-> 0, doc |-> d])
          /\ prompt_config = Some(load_prompts_from_str(d, 1).config)
    /\ schema_ok = TRUE
    /\ function_schema_file = "ok"
    /\ rag_tool = RagEngine(Unwrap(prompt_config), "loaded")
    /\ used = <<>>
    /\ last_reload = NoReload
    /\ history_type = "redis"
    /\ utc_now = 1
    /\ history_list = <<>>
    /\ history_points = {}
    /\ appended = <<>>
    /\ conversation = NoConversation
    /\ rag_query = NoQuery
    /\ rag_answer = NoAnswer
    /\ LlmIdle

\* One call of the RAG tool.  The engine keeps nothing from one query to
\* the next, so a behaviour makes one.
query_and_answer_call(user_question, env) ==
    /\ IsSome(rag_tool)
    /\ rag_query = NoQuery
    /\ rag_query' = [user_question |-> user_question, env |-> env]
    /\ rag_answer' = query_and_answer(Unwrap(rag_tool).config, user_question, env)
    /\ UNCHANGED <<authVars, streamVars, agentVars, promptVars, remoteVars, storeVars,
                   llmVars>>

NextRag ==
    \E user_question \in Questions, env \in RagEnvs :
        query_and_answer_call(user_question, env)

SpecRag == InitRag /\ [][NextRag]_vars

\* How often a call was made.
CountCalls(calls, name) == Cardinality({ i \in DOMAIN calls : calls[i] = name })

\* The calls made after topic resolution.
AfterTopic(calls) ==
    SelectSeq(calls, LAMBDA c : c \notin {"chat_topic", "chat_fallback"})

Asked == rag_answer.ret # "none"

\* The first chat call answered and its normalized answer is unresolved.
FirstUnresolved ==
    /\ IsSome(rag_query.env.topic)
    /\ unresolved(normalize_topic(Unwrap(rag_query.env.topic)))

\* C27: topic inference makes at most two chat calls; the fallback
\* resolver is called once when the first answer is unresolved and not at
\* all otherwise; and when its answer is unresolved too the query fails
\* with the could-not-determine-category error without a count, an
\* embedding or a search.
C27_FallbackOnceThenFail ==
    Asked =>
        /\ CountCalls(rag_answer.calls, "chat_topic")
              + CountCalls(rag_answer.calls, "chat_fallback") <= 2
        /\ CountCalls(rag_answer.calls, "chat_fallback")
              = (IF FirstUnresolved THEN 1 ELSE 0)
        /\ (/\ FirstUnresolved
            /\ IsSome(rag_query.env.fallback)
            /\ unresolved(normalize_topic(Unwrap(rag_query.env.fallback))))
              => /\ rag_answer.ret = "err"
                 /\ rag_answer.value = "could_not_determine_category"
                 /\ AfterTopic(rag_answer.calls) = <<>>

\* With the fallback template in the snapshot the same holds.
FallbackOnceWhenTemplatePresent ==
    (Asked /\ "fallback_topic_resolver" \in Unwrap(rag_tool).config.keys)
        => C27_FallbackOnceThenFail

\* The count shortcut applies: a count word in the lowercased question and
\* a resolved topic.
CountShortcutApplies ==
    /\ Asked
    /\ IsSome(rag_answer.final_topic)
    /\ \/ Contains(ToLowercase(rag_query.user_question), <<"c", "o", "u", "n", "t">>)
       \/ Contains(ToLowercase(rag_query.user_question), <<"t", "o", "t", "a", "l">>)
       \/ Contains(ToLowercase(rag_query.user_question),
                   <<"h", "o", "w", " ", "m", "a", "n", "y">>)
       \/ Contains(ToLowercase(rag_query.user_question),
                   <<"h", "o", "w", " ", "m", "u", "c", "h">>)

\* C28 as originally worded: when the shortcut applies the query returns
\* the document count as a string and makes no chat, embedding or search
\* call after topic resolution.
C28_Original_CountAlwaysReturned ==
    CountShortcutApplies =>
        /\ rag_answer.ret = "ok"
        /\ IsSome(rag_query.env.count)
        /\ rag_answer.value = to_string(Unwrap(rag_query.env.count))
        /\ AfterTopic(rag_answer.calls) = <<"count_documents">>

\* C28: when the shortcut applies the only call after topic resolution is
\* count_documents; the query returns the count as a string when that call
\* succeeds and the count-failed error when it fails.
C28_CountShortcut ==
    CountShortcutApplies =>
        /\ AfterTopic(rag_answer.calls) = <<"count_documents">>
        /\ IF IsSome(rag_query.env.count)
           THEN /\ rag_answer.ret = "ok"
                /\ rag_answer.value = to_string(Unwrap(rag_query.env.count))
           ELSE /\ rag_answer.ret = "err"
                /\ rag_answer.value = "count_failed"

\* C28 witness: "how much ..." with the topic resolved by the fallback was
\* answered "12" after the two topic calls and the count.
C28_Witness ==
    /\ rag_query.user_question = QuestionHowMuch
    /\ rag_answer.ret = "ok"
    /\ rag_answer.value = <<"1", "2">>
    /\ rag_answer.calls = <<"chat_topic", "chat_fallback", "count_documents">>

(***************************************************************************)
(* Claims about the demultiplexer's state across turns and chunks.         *)
(***************************************************************************)

\* The characters carried by the content frames.
RECURSIVE ContentLen(_)
ContentLen(frames) ==
    IF frames = <<>> THEN 0
    ELSE (IF IsContent(Head(frames)) THEN Len(Head(frames).content) ELSE 0)
         + ContentLen(Tail(frames))

RECURSIVE TotalLen(_)
TotalLen(chunks) == IF chunks = <<>> THEN 0 ELSE Len(Head(chunks)) + TotalLen(Tail(chunks))

\* C29: whenever a chat turn starts on a connection its demultiplexer is in
\* OUTSIDE with an empty buffer and both partial-tag flags clear, and the
\* content frames of a turn carry no more text than was streamed in that turn.
C29_DemuxStatePerTurn ==
    \A c \in conns :
        /\ hpc[c] \in {"lock", "agent"} => dm[c] = DemuxInit
        /\ turn[c] > 0 => ContentLen(FramesOfTurn(c, turn[c])) <= TotalLen(fed[c])

\* One connection, one chat message, and streams in which a tag is begun
\* and not finished.
InitBrokenTags ==
    /\ AuthSettled
    /\ AgentIdle
    /\ PromptSettled
    /\ RemoteIdle
    /\ ToolsIdle
    /\ \E think \in BOOLEAN :
         InitHandlers({1}, [c \in {1} |-> <<ChatFrame(think)>>], "broken")

SpecBrokenTags == InitBrokenTags /\ [][NextStream]_vars

\* The demultiplexer is holding the beginning of a tag.
HoldsTagPrefix(d) ==
    \/ ~d.in_thinking_section /\ d.partial_open_tag
    \/ d.in_thinking_section /\ d.partial_close_tag

\* The buffer ends with a proper prefix of the tag of the current mode.
EndsWithTagPrefix(d, buffer) ==
    \E k \in 1..(Len(IF d.in_thinking_section THEN CloseTag ELSE OpenTag) - 1) :
        EndsWith(buffer, SubSeq(IF d.in_thinking_section THEN CloseTag ELSE OpenTag, 1, k))

\* C30: a buffer that ends with a proper prefix of the tag of the current
\* mode is held; when the next chunk neither completes the tag nor ends
\* with such a prefix again, the held text goes out at once in a frame of
\* the current mode, the mode stays, and the pending flags are cleared.
C30_HeldPrefixFlushedWhenNotCompleted ==
    [][ \A c \in conns :
          (/\ hpc[c] = "stream" /\ stream[c] # <<>> /\ Head(stream[c]).ok
           /\ stream'[c] = Tail(stream[c])
           /\ HoldsTagPrefix(dm[c])
           /\ ~Contains(dm[c].buffer \o Head(stream[c]).text,
                        IF dm[c].in_thinking_section THEN CloseTag ELSE OpenTag)
           /\ ~EndsWithTagPrefix(dm[c], dm[c].buffer \o Head(stream[c]).text))
            => /\ dm'[c].in_thinking_section = dm[c].in_thinking_section
               /\ ~dm'[c].partial_open_tag
               /\ ~dm'[c].partial_close_tag
               /\ Len(out'[c]) > Len(out[c])
               /\ out'[c][Len(out[c]) + 1].type
                      = (IF dm[c].in_thinking_section THEN "thinking_fragment" ELSE "partial")
               /\ StartsWith(out'[c][Len(out[c]) + 1].content, dm[c].buffer) ]_vars

\* What does hold: a buffer that ends with two to six characters of <think>
\* in OUTSIDE, or with < in INSIDE, is kept and nothing is sent.
TagPrefixIsHeld ==
    [][ \A c \in conns :
          (/\ hpc[c] = "stream" /\ stream[c] # <<>> /\ Head(stream[c]).ok
           /\ stream'[c] = Tail(stream[c])
           /\ ~HoldsTagPrefix(dm[c])
           /\ HoldsTagPrefix(dm'[c]))
            => /\ out'[c] = out[c]
               /\ dm'[c].buffer = dm[c].buffer \o Head(stream[c]).text
               /\ dm'[c].in_thinking_section = dm[c].in_thinking_section ]_vars

\* One connection, one chat message, and every chunking of outputs whose
\* tags come after more than FlushLimit characters.
InitLongChunks ==
    /\ AuthSettled
    /\ AgentIdle
    /\ PromptSettled
    /\ RemoteIdle
    /\ ToolsIdle
    /\ InitHandlers({1}, [c \in {1} |-> <<ChatFrame(FALSE)>>], "long")

SpecLongChunks == InitLongChunks /\ [][NextStream]_vars

\* The handler of c consumes a chunk and stays in its mode.
ChunkStepInMode(c) ==
    /\ hpc[c] = "stream" /\ stream[c] # <<>> /\ Head(stream[c]).ok
    /\ stream'[c] = Tail(stream[c])
    /\ dm'[c].in_thinking_section = dm[c].in_thinking_section

\* C31: a buffer that ends with a proper prefix of the tag of the current
\* mode is never emitted and cleared by the size-triggered flush, whatever
\* its length; and a flush that fires sends the buffer in a frame of the
\* current mode and leaves the buffer empty.
C31_FlushSparesTagPrefix ==
    [][ \A c \in conns :
          ChunkStepInMode(c) =>
            /\ EndsWithTagPrefix(dm[c], dm[c].buffer \o Head(stream[c]).text)
                 => /\ out'[c] = out[c]
                    /\ dm'[c].buffer = dm[c].buffer \o Head(stream[c]).text
            /\ (Len(out'[c]) > Len(out[c]))
                 => /\ dm'[c].buffer = <<>>
                    /\ out'[c][Len(out'[c])].type
                           = (IF dm[c].in_thinking_section THEN "thinking_fragment"
                              ELSE "partial") ]_vars

\* What does hold: a chunk that leaves the mode as it was sends a frame only
\* when the buffer has grown beyond FlushLimit, the frame is of the current
\* mode, and the buffer is empty afterwards.
FlushEmitsInModeAndClears ==
    [][ \A c \in conns :
          (ChunkStepInMode(c) /\ Len(out'[c]) > Len(out[c]))
            => /\ Len(dm[c].buffer \o Head(stream[c]).text) > FlushLimit
               /\ dm'[c].buffer = <<>>
               /\ out'[c][Len(out'[c])].type
                      = (IF dm[c].in_thinking_section THEN "thinking_fragment"
                         ELSE "partial") ]_vars

(***************************************************************************)
(* Claims about the agent's use of the embedder and of the two tiers.      *)
(***************************************************************************)

\* The turn that has just returned missed both tiers and was answered by
\* the chat backend, with the cache enabled.
JustMissed ==
    /\ JustReturned
    /\ acfg.enable_cache
    /\ LastTurn.ok
    /\ LastTurn.calls > 0

\* C32: a turn that missed the cache, with caching enabled, called the
\* embedder exactly once.
C32_OneEmbeddingPerMiss ==
    JustMissed => LastTurn.embeds = 1

\* What does hold: such a turn calls the embedder once or twice, and twice
\* exactly when the semantic tier is connected and its lookup found nothing.
EmbeddingsPerMiss ==
    JustMissed => LastTurn.embeds \in {1, 2}

\* The last call of the cache facade was this kind of update.
LastUpdateWas(kinds) == log' # log /\ log'[Len(log')].what \in kinds

\* The points a step adds carry the response the update was given, and the
\* exact tier, where the step wrote it, holds the same text.
WritesSameText ==
    \A p \in qdrant' \ qdrant :
        /\ p.payload.response = log'[Len(log')].value
        /\ \A k \in DOMAIN redis' :
              (redis'[k] # redis[k] /\ IsSome(redis'[k]))
                  => Unwrap(redis'[k]).val = p.payload.response

\* C33: every update and every update_streaming, with or without thinking
\* text, stores in the semantic tier the response it was given, the same
\* text it writes to the exact tier: no thinking text and no JSON envelope
\* around it.
C33_BothTiersSameText ==
    [][ LastUpdateWas({"update", "update_streaming", "update_streaming_thinking"})
            => WritesSameText ]_vars

\* What does hold: update, and update_streaming without thinking text,
\* store the same text in both tiers.
SameTextWithoutThinking ==
    [][ LastUpdateWas({"update", "update_streaming"}) => WritesSameText ]_vars

(***************************************************************************)
(* The semantic tier's collection and the length of the vectors written    *)
(* to it.                                                                  *)
(***************************************************************************)

\* Bound: args.dimension, in components of the model's vectors.
EmbeddingDim == 2

\* The vector size of a collection found at start-up under the configured
\* name: none, one of the configured dimension, one of another dimension.
ExistingCollections == {None, Some(EmbeddingDim), Some(EmbeddingDim + 1)}

\* cache::qdrant::init: collection_info, and when it fails create_collection
\* with size args.dimension; a collection that is there is used as it is.
init_collection(existing, dimension) ==
    IF IsSome(existing) THEN Unwrap(existing) ELSE dimension

\* The configurations after start-up with the cache enabled, with the
\* configured dimension and the vector size of the collection in use.
SizedConfigs ==
    { [enable_cache |-> TRUE, redis_conn |-> r, qdrant_client |-> q,
       ttl |-> 0, threshold |-> 85,
       dimension |-> EmbeddingDim,
       collection_size |-> init_collection(e, EmbeddingDim)] :
         r \in BOOLEAN, q \in BOOLEAN, e \in ExistingCollections }

\* The embeddings an update is called with: none, of the configured
\* dimension, shorter and longer.
Vectors == {<<>>, <<"h">>, <<"h", "i">>, <<"h", "i", "!">>}

\* cli.upsert_points(op): the server refuses a point whose vector has
\* another length than the vectors of the collection, and upsert drops the
\* refusal like any other error of the request.
upsert_faults(cfg, embedding, F) ==
    IF embedding # <<>> /\ Len(embedding) # cfg.collection_size
    THEN F \cup {"upsert"}
    ELSE F

InitSized ==
    /\ AuthSettled
    /\ StreamIdle
    /\ PromptSettled
    /\ RemoteIdle
    /\ ToolsIdle
    /\ acfg \in SizedConfigs
    /\ redis = [k \in NormKeys |-> None]
    /\ qdrant = {}
    /\ history = <<>>
    /\ pending = <<>>
    /\ log = <<>>

\* cache::update called with any embedding.
CacheUpdateVector ==
    /\ Len(log) < MaxOps
    /\ \E k \in NormKeys, embedding \in Vectors, F \in CacheFaultSets :
          LET u == update(acfg, redis, qdrant, k, ValPlain, embedding,
                          upsert_faults(acfg, embedding, F)) IN
          /\ redis' = u.redis
          /\ qdrant' = u.qdrant
          /\ log' = Append(log, [what |-> "update", conn |-> 0, key |-> k,
                                 value |-> ValPlain, ok |-> u.ok, hit |-> None,
                                 faults |-> F, embedding |-> embedding])
    /\ UNCHANGED <<acfg, history, pending>>
    /\ UNCHANGED <<authVars, streamVars, promptVars, remoteVars, toolVars>>

NextSized == CacheUpdateVector

SpecSized == InitSized /\ [][NextSized]_vars

\* The update a step has just made.
UpdateMade == log'[Len(log')]

\* An update with an empty embedding that returned Ok left the semantic
\* tier alone and, with the exact tier connected, wrote the response there.
EmptyEmbeddingSkipsTierB ==
    (UpdateMade.embedding = <<>> /\ UpdateMade.ok)
        => /\ qdrant' = qdrant
           /\ acfg.redis_conn
                => redis'[UpdateMade.key] = Some([val |-> UpdateMade.value, ex |-> acfg.ttl])

\* C34: a point enters the semantic tier only with a non-empty embedding of
\* the configured dimension: an update with an empty embedding writes the
\* exact tier and skips the semantic tier, and an update with an embedding
\* of any other length inserts no point.
C34_PointsHaveConfiguredDimension ==
    [][ log' # log
          => /\ EmptyEmbeddingSkipsTierB
             /\ Len(UpdateMade.embedding) # acfg.dimension => qdrant' = qdrant
             /\ \A p \in qdrant' \ qdrant :
                   p.vector # <<>> /\ Len(p.vector) = acfg.dimension ]_vars

\* What does hold: the empty embedding is skipped, and a point that enters
\* has a non-empty vector of the size of the collection in use, which is
\* the configured dimension when start-up created the collection.
PointsFitTheCollection ==
    [][ log' # log
          => /\ EmptyEmbeddingSkipsTierB
             /\ \A p \in qdrant' \ qdrant :
                   p.vector # <<>> /\ Len(p.vector) = acfg.collection_size ]_vars

\* A point of another length than the configured dimension is stored.
OddPointStored ==
    \E p \in qdrant : Len(p.vector) # acfg.dimension

(***************************************************************************)
(* The stored ETag and the snapshot it stands for.                         *)
(***************************************************************************)

\* The step installed the document of the remote service as the snapshot.
RemoteSnapshotInstalled ==
    /\ load_prompts_from_str(remote.doc, wall).ok
    /\ prompt_config' = Some(load_prompts_from_str(remote.doc, wall).config)

\* C35: the stored ETag is replaced only by a fetch whose document was
\* extracted, parsed and validated and became the snapshot; after a 200
\* whose body is unreadable, lacks the value or does not load, the stored
\* ETag is what it was.
C35_TagOnlyWithSnapshot ==
    [][ etag' # etag => RemoteSnapshotInstalled ]_vars

\* What does hold: the stored ETag changes only on a 200 answer, to the tag
\* of the revision the service answered with.
TagOnlyOnOk ==
    [][ etag' # etag
          => api_response'.remote_status = 200 /\ etag' = Some(remote.etag) ]_vars

\* A fetch was answered 304 for a revision of the service that does not
\* load, so that no snapshot was ever made of it.
NotModifiedForUnloaded ==
    /\ api_response.remote_status = 304
    /\ ~load_prompts_from_str(remote.doc, wall).ok
    /\ etag = Some(remote.etag)

(***************************************************************************)
(* Part 10.  The chat adapters' streams.                                   *)
(***************************************************************************)

\* Bounds of the adapter model: chunks in one answer, lines in one chunk.
MaxWire == 2
MaxLines == 2

Adapters == {"ollama", "openai", "groq", "xai", "anthropic"}

\* ChatClient::supports_native_streaming of each adapter.
supports_native_streaming(adapter) == adapter \in {"ollama", "openai", "groq", "xai"}

\* A line of the answer that parses: its text (response, or the content of
\* the delta of its choice) and whether it is the terminator (done = true,
\* or finish_reason "stop").
WireLines == { [content |-> t, stop |-> b] : t \in {<<>>, <<"a">>}, b \in BOOLEAN }

\* A chunk of the body: lines, or an error of the transport.
ChunkError == [err |-> TRUE, lines |-> <<>>]
WireChunks ==
    {ChunkError}
    \cup { [err |-> FALSE, lines |-> l] : l \in UNION { [1..n -> WireLines] : n \in 1..MaxLines } }
Wires == UNION { [1..n -> WireChunks] : n \in 0..MaxWire }

\* What the loop over the lines does with a parsed line: the fragment it
\* sends, and whether it goes on to the next line ("next"), leaves the loop
\* over the lines of this chunk ("break") or ends the task ("return").
\* ollama: `if stream_resp.done { break; }` inside `for line in text.lines()`.
\* openai and groq: `if reason == "stop" { return; }`.  xai: no test.
on_line(adapter, line) ==
    [send |-> IF line.content # <<>> THEN Some(line.content) ELSE None,
     then |-> IF ~line.stop THEN "next"
              ELSE IF adapter = "ollama" THEN "break"
              ELSE IF adapter \in {"openai", "groq"} THEN "return"
              ELSE "next"]

\* full_response_as_stream with a closure that swallows its error.
full_response_as_stream_silent(unary) ==
    IF unary.ok THEN <<OkItem(unary.text)>> ELSE <<>>

\* full_response_as_stream: the one item the spawned task sends, the text
\* of the completion or its error.
full_response_as_stream(unary) ==
    IF unary.ok THEN <<OkItem(unary.text)>> ELSE <<ErrItem>>

\* The answers of the backend: for a native adapter the status of the
\* request and the chunks of the body; for the others the outcome of the
\* unary chat call.
LlmReplies(adapter) ==
    IF supports_native_streaming(adapter)
    THEN { [status_ok |-> b, wire |-> w, unary |-> [ok |-> TRUE, text |-> <<>>]] :
             b \in BOOLEAN, w \in Wires }
    ELSE { [status_ok |-> TRUE, wire |-> <<>>, unary |-> [ok |-> b, text |-> t]] :
             b \in BOOLEAN, t \in {<<>>, <<"a">>, <<"a", "b">>} }

InitLlm ==
    /\ AuthSettled
    /\ StreamIdle
    /\ AgentIdle
    /\ PromptSettled
    /\ RemoteIdle
    /\ history_type = "redis"
    /\ utc_now = 1
    /\ history_list = <<>>
    /\ history_points = {}
    /\ appended = <<>>
    /\ conversation = NoConversation
    /\ rag_query = NoQuery
    /\ rag_answer = NoAnswer
    /\ llm_adapter \in Adapters
    /\ llm_reply \in LlmReplies(llm_adapter)
    /\ llm_items = <<>>
    /\ llm_task = "idle"
    /\ llm_stopped = FALSE

otherThanLlm == <<authVars, streamVars, agentVars, promptVars, remoteVars, storeVars, ragVars>>

\* stream_chat_for_provider: the adapter's own stream_completion when it
\* streams natively, full_response_as_stream otherwise.  The native task
\* sends the request; a failed request or an error status is the one item
\* of the stream.
stream_chat_for_provider ==
    /\ llm_task = "idle"
    /\ IF ~supports_native_streaming(llm_adapter)
       THEN llm_task' = "waiting" /\ llm_items' = llm_items
       ELSE IF ~llm_reply.status_ok
       THEN llm_task' = "ended" /\ llm_items' = <<ErrItem>>
       ELSE llm_task' = "reading" /\ llm_items' = llm_items
    /\ UNCHANGED <<llm_adapter, llm_reply, llm_stopped>>
    /\ UNCHANGED otherThanLlm

\* The spawned task of a non-native adapter: the unary call returns and its
\* outcome is sent; the sender is dropped.
unary_task ==
    /\ llm_task = "waiting"
    /\ llm_items' = llm_items \o full_response_as_stream(llm_reply.unary)
    /\ llm_task' = "ended"
    /\ UNCHANGED <<llm_adapter, llm_reply, llm_stopped>>
    /\ UNCHANGED otherThanLlm

\* One step of `while let Some(chunk_result) = stream.next().await` and of
\* the loop over the lines inside it.
native_task ==
    /\ llm_task = "reading"
    /\ LET wire == llm_reply.wire IN
       IF wire = <<>>
       THEN /\ llm_task' = "ended"
            /\ UNCHANGED <<llm_reply, llm_items, llm_stopped>>
       ELSE IF Head(wire).err
       THEN /\ llm_items' = Append(llm_items, ErrItem)
            /\ llm_task' = "ended"
            /\ UNCHANGED <<llm_reply, llm_stopped>>
       ELSE IF Head(wire).lines = <<>>
       THEN /\ llm_reply' = [llm_reply EXCEPT !.wire = Tail(wire)]
            /\ UNCHANGED <<llm_items, llm_task, llm_stopped>>
       ELSE LET line == Head(Head(wire).lines)
                o == on_line(llm_adapter, line)
            IN /\ llm_items' = IF IsSome(o.send)
                               THEN Append(llm_items, OkItem(Unwrap(o.send)))
                               ELSE llm_items
               /\ llm_stopped' = (llm_stopped \/ line.stop)
               /\ llm_task' = IF o.then = "return" THEN "ended" ELSE "reading"
               /\ llm_reply' = [llm_reply EXCEPT !.wire =
                                   IF o.then = "break" THEN Tail(wire)
                                   ELSE <<[err |-> FALSE, lines |-> Tail(Head(wire).lines)]>>
                                        \o Tail(wire)]
    /\ UNCHANGED llm_adapter
    /\ UNCHANGED otherThanLlm

NextLlm ==
    \/ stream_chat_for_provider
    \/ unary_task
    \/ native_task

SpecLlm == InitLlm /\ [][NextLlm]_vars

\* An error item, if there is one, is the last item.
ErrorIsLast(items) == \A i \in 1..(Len(items) - 1) : items[i].ok

\* A step of a native adapter's task that keeps to the terminator: once the
\* terminator has been read nothing more is sent and the task has ended.
KeepsToTerminator ==
    /\ llm_stopped => llm_items' = llm_items
    /\ llm_stopped' => llm_task' = "ended"

\* C36: a native adapter's stream stops at its terminator: after the line
\* with done = true (ollama) or the choice with finish_reason "stop"
\* (openai, groq, xai) no further fragment is sent and the stream ends, even
\* if the backend sends more; and an error item is the last item.
C36_StopsAtTerminator ==
    [][ supports_native_streaming(llm_adapter)
          => KeepsToTerminator /\ ErrorIsLast(llm_items') ]_vars

\* What does hold: openai and groq stop at the terminator; every native
\* stream has its error item last and ends when the body ends.
OpenAiAndGroqStopAtTerminator ==
    [][ /\ llm_adapter \in {"openai", "groq"} => KeepsToTerminator
        /\ ErrorIsLast(llm_items') ]_vars

\* C37: the stream of an adapter without native streaming has exactly one
\* item when it has ended, the text of the unary completion or one error
\* item, and never holds more than one.
C37_OneItemWithoutNativeStreaming ==
    (llm_adapter \in Adapters /\ ~supports_native_streaming(llm_adapter))
        => /\ Len(llm_items) <= 1
           /\ llm_task = "ended"
                => llm_items = <<(IF llm_reply.unary.ok THEN OkItem(llm_reply.unary.text)
                                  ELSE ErrItem)>>

\* C37 witness: the stream of the anthropic adapter has ended after its one
\* item, the error of the unary call.
C37_Witness ==
    /\ llm_adapter = "anthropic"
    /\ llm_task = "ended"
    /\ ~llm_reply.unary.ok
    /\ llm_items = <<ErrItem>>

\* The same with the text of a completion.
C37_TextDelivered ==
    /\ llm_adapter = "anthropic"
    /\ llm_task = "ended"
    /\ llm_items = <<OkItem(<<"a", "b">>)>>

(***************************************************************************)
(* Promotion of a semantic hit to the exact tier.                          *)
(***************************************************************************)

\* The turn of entry e missed the exact tier and was answered by the
\* semantic tier: it succeeded with one embedding and no chat call.
SemanticHit(e) == e.what = "turn" /\ e.ok /\ e.calls = 0 /\ e.embeds = 1

\* The turn of entry e was answered by the exact tier with response r.
ExactHit(e, r) == e.ok /\ e.calls = 0 /\ e.embeds = 0 /\ e.response = r

\* The step is a turn answered by the semantic tier.
PromotionStep == log' # log /\ SemanticHit(log'[Len(log')])

\* The step left the response in the exact tier under the normalized
\* prompt.
PromotedToExactTier ==
    LET e == log'[Len(log')]
    IN redis'[NormalizedPrompt(e.message)] = Some([val |-> e.response, ex |-> acfg.ttl])

\* The step appended the user message and then the response to the history
\* of the conversation.
HitRecorded ==
    LET e == log'[Len(log')]
    IN history'[e.conn] = history[e.conn] \o <<[role |-> "user", content |-> e.message],
                                               [role |-> "assistant", content |-> e.response]>>

\* Entry i + 1 of the log is the same message on the same connection right
\* after the semantic hit of entry i.
Repeated(entries, i) ==
    /\ SemanticHit(entries[i])
    /\ entries[i + 1].what = "turn"
    /\ entries[i + 1].conn = entries[i].conn
    /\ entries[i + 1].message = entries[i].message

reload_schema_if_needed_first_snapshot(generated, fschema, current, rag) ==
    IF ~generated \/ fschema = "garbage" THEN [ret |-> "err", rag_tool |-> rag]
    ELSE [ret |-> "true",
          rag_tool |-> RagEngine([keys |-> RequiredKeys, rev |-> 1, last_loaded |-> 1],
                                 IF fschema = "missing" THEN "empty" ELSE "loaded")]

\* AIAgent::reload_schema_if_needed: generate_schema, the function schema
\* file (an empty schema when it cannot be read), then a new RagEngine with
\* the agent's current snapshot; an error of generate_schema or of the
\* parse leaves the engine as it was.
reload_schema_if_needed(generated, fschema, current, rag) ==
    IF ~generated \/ fschema = "garbage" THEN [ret |-> "err", rag_tool |-> rag]
    ELSE [ret |-> "true",
          rag_tool |-> RagEngine(Unwrap(current),
                                 IF fschema = "missing" THEN "empty" ELSE "loaded")]

\* The agent runs on its first snapshot; no handler exists yet.
InitReloads ==
    /\ AuthSettled
    /\ StreamIdle
    /\ AgentIdle
    /\ PromptSettled
    /\ RemoteIdle
    /\ ToolsIdle

\* A connection arrives: under the agent's lock the handler calls
\* reload_prompts_if_changed and, with auto_schema, reload_schema_if_needed,
\* logs their errors and drops the guard.
connect_reload(auto_schema, generated) ==
    /\ boot = "running"
    /\ agent_lock = 0
    /\ LET l == reload_prompts_if_changed(prompts_file, schema_ok, function_schema_file,
                                          prompt_config, rag_tool, wall)
           r == IF auto_schema
                THEN reload_schema_if_needed(generated, function_schema_file,
                                             l.prompt_config, l.rag_tool)
                ELSE [ret |-> "skipped", rag_tool |-> l.rag_tool]
       IN /\ prompt_config' = l.prompt_config
          /\ rag_tool' = r.rag_tool
          /\ last_reload' = ReloadEntry(prompts_file, schema_ok, function_schema_file,
                                        prompt_config, rag_tool, l)
    /\ UNCHANGED <<boot, wall, prompts_file, schema_ok, function_schema_file, used>>
    /\ UNCHANGED <<authVars, streamVars, agentVars, remoteVars, toolVars>>

NextReloads ==
    \/ \E d \in EditDocs : EditPrompts(Some([mtime |-> wall, doc |-> d]))
    \/ EditSchema
    \/ \E v \in {"ok", "missing", "garbage"} : EditFunctionSchema(v)
    \/ WallTick
    \/ \E auto_schema \in BOOLEAN, generated \in BOOLEAN :
          connect_reload(auto_schema, generated)

SpecReloads == InitReloads /\ [][NextReloads]_vars

\* C39: after any sequence of reload_prompts_if_changed and
\* reload_schema_if_needed calls, whether they succeeded or failed, the
\* RagEngine holds the snapshot the agent holds.
C39_OneSnapshot ==
    boot = "running" => Unwrap(rag_tool).config = Unwrap(prompt_config)

\* C39 witness: a later edition of the prompts was installed, then a prompt
\* reload failed and a schema reload rebuilt the engine with an empty
\* function schema.
C39_Witness ==
    /\ Unwrap(prompt_config).rev = 2
    /\ last_reload.ret = "err"
    /\ Unwrap(rag_tool).function_schema = "empty"
    /\ Unwrap(rag_tool).config = Unwrap(prompt_config)

(***************************************************************************)
(* A text frame that is not a ClientMessage.                               *)
(***************************************************************************)

\* The handler of c takes a frame within the size limit that does not parse
\* as a ClientMessage.
TakesUnparsable(c) ==
    /\ AtLoopTop(c)
    /\ inbox[c] # <<>>
    /\ Head(inbox[c]).kind = "invalid"
    /\ ~TooLarge(Head(inbox[c]))
    /\ inbox'[c] = Tail(inbox[c])

\* C40: a text frame that does not parse as a ClientMessage is answered by
\* exactly one error frame and starts no turn: no typing frame, no call of
\* the agent, no write to the history or the cache; the handler stays at
\* the top of its loop with its conversation and its state as they were, so
\* that a later chat message on the connection is processed as usual.
C40_UnparsableFrameOnlyErrors ==
    [][ \A c \in conns :
          TakesUnparsable(c)
            => /\ Len(out'[c]) = Len(out[c]) + 1
               /\ SubSeq(out'[c], 1, Len(out[c])) = out[c]
               /\ out'[c][Len(out'[c])].type = "error"
               /\ hpc'[c] = "recv"
               /\ turn' = turn
               /\ agent_lock' = agent_lock
               /\ <<dm, stream, fed, conns>>' = <<dm, stream, fed, conns>>
               /\ agentVars' = agentVars ]_vars

\* C40 witness: connection 1 sent a frame that does not parse and then a
\* chat message; it got the error frame, then the frames of its first turn
\* to the end, and is open.
C40_Witness ==
    /\ 1 \in conns
    /\ Len(out[1]) >= 3
    /\ out[1][1].type = "error"
    /\ out[1][1].why = "Failed to parse message"
    /\ out[1][2].type = "typing"
    /\ out[1][2].turn = 1
    /\ out[1][Len(out[1])].type = "done"
    /\ hpc[1] = "recv"
====
